---- MODULE Spec2Model ----
(***************************************************************************)
(* Model of the virtio-gpu driver of src/src/dev/virtio_gpu.c: the mode    *)
(* manager (update_modes, get_available_modes, get_mode, reset, set_mode), *)
(* the flush pipeline and the synchronous virtqueue transactions they      *)
(* issue, together with the device side of each command.                   *)
(*                                                                         *)
(* A public operation of the driver is one action.  The transactions an    *)
(* operation issues can each fail in the ways transact_rw / transact_base  *)
(* can fail and each allocation can fail, so an operation has several      *)
(* possible results: an action picks one of them.                          *)
(*                                                                         *)
(* SpecTransact follows one transaction statement by statement against a   *)
(* device that takes published chains at any time, SpecRace two of them on *)
(* the same queue, and SpecInit follows virtio_gpu_init with any of its    *)
(* steps failing.  SpecLength computes the frame buffer length at the      *)
(* width of the program's integers.  SpecParport is the parallel port      *)
(* driver of src/src/rust/parport.c with two callers and its interrupt.    *)
(***************************************************************************)
EXTENDS Integers, Sequences, FiniteSets, TLC

VARIABLES
    d,            \* struct virtio_gpu_dev: the software state of the device
    gpu,          \* the device: resource table, scanout bindings, status register
    display,      \* the device: the scanouts it has, as it reports them
    heap,         \* live malloc() allocations, a set of [addr, len]
    vga_screen,   \* contents of the VGA text screen
    known_modes,  \* the mode_data tokens of the descriptors handed to callers
    trip,         \* the text screen at the last switch from text to graphics
    fb,           \* the pixels of the buffer frame_buffer points to, by index
    stray,        \* the pixel indexes written beyond the end of that buffer
    plotted,      \* the coordinates the last operation passed to draw_pixel
    draws,        \* the number of drawing calls made so far
    input,        \* the arguments chosen for the function a behaviour applies
    published,    \* chains the last operation published on virtqueue 0, in order
    errors,       \* the ERROR() messages of the last operation, in order
    op,           \* the last public operation: its name, argument, cur_mode at entry
    ret,          \* its return value
    out,          \* its output parameters (modes[], *num, *mode)
    virtq,        \* virtqueue 0 and the transaction in progress on it
    kernel,       \* what the kernel holds around the devices after their init
    parport       \* the parallel port driver: its state, its lock, its callers

vars ==
    <<d, gpu, display, heap, vga_screen, known_modes, trip, fb, stray,
      plotted, draws, input, published, errors, op, ret, out, virtq,
      kernel, parport>>

---------------------------------------------------------------------------
(* Program constants *)

VIRTIO_GPU_MAX_SCANOUTS == 16
SCREEN_RID == 42
CURSOR_RID == 23
VIRTIO_GPU_FORMAT_R8G8B8A8_UNORM == 67
PIXEL_SIZE == 4
CURSOR_FB_LENGTH == 16384
TEXT_WIDTH == 80
TEXT_HEIGHT == 25
MODE_LIMIT == 15
STATUS_ACKNOWLEDGED == 1

(* Bounds of the model *)

MaxSlots == 18      \* SpecModes: get_available_modes is called with *num in 0..MaxSlots
MaxNum == 4        \* Spec: get_available_modes is called with *num in 0..MaxNum
MaxAlloc == 3       \* the heap holds at most MaxAlloc live allocations

NULL == 0

---------------------------------------------------------------------------
(* Wire structures *)

Rect(x, y, w, h) == [x |-> x, y |-> y, width |-> w, height |-> h]

ZeroRect == Rect(0, 0, 0, 0)

\* one entry of virtio_gpu_resp_display_info.pmodes
ZeroDisplay == [r |-> ZeroRect, enabled |-> 0]

ZeroPmodes == [i \in 0..(VIRTIO_GPU_MAX_SCANOUTS - 1) |-> ZeroDisplay]

\* a zeroed virtio_gpu_resp_display_info: hdr.type 0 is written "ZERO"
ZeroDispInfo == [type |-> "ZERO", pmodes |-> ZeroPmodes]

\* a request after ZERO(): every request structure of the driver, flattened
\* into one record; nseg is the number of read-only segments of its chain
ZeroReq ==
    [type |-> "ZERO", resource_id |-> 0, format |-> 0, width |-> 0, height |-> 0,
     r |-> ZeroRect, scanout_id |-> 0, offset |-> 0, nr_entries |-> 0,
     addr |-> 0, length |-> 0, nseg |-> 1]

\* nk_gpu_dev_pixel_t: the four channel bytes, channel[0] the lowest byte
\* of raw
ZeroPixel == <<0, 0, 0, 0>>

\* a buffer of n pixels after memset(.., 0, ..): pixel index -> pixel
ZeroFb(n) == [i \in 0..(n - 1) |-> ZeroPixel]

---------------------------------------------------------------------------
(* The heap: malloc and free *)

FreshAddr(h) ==
    CHOOSE a \in 1..(Cardinality(h) + 1) : \A b \in h : b.addr # a

\* malloc(len): NULL, or a fresh allocation while the heap has room
malloc(h, len) ==
    {[heap |-> h, ptr |-> NULL]} \cup
    (IF Cardinality(h) < MaxAlloc
        THEN {[heap |-> h \cup {[addr |-> FreshAddr(h), len |-> len]},
               ptr |-> FreshAddr(h)]}
        ELSE {})

\* free(ptr); free(NULL) does nothing
free(h, ptr) == {b \in h : b.addr # ptr}

AllocLen(h, ptr) == (CHOOSE b \in h : b.addr = ptr).len

---------------------------------------------------------------------------
(* The device.  A resource is [id, format, width, height, backing,         *)
(* content], where backing is the sequence of attached memory entries and  *)
(* content the pixels the device holds for it, row after row (<<>> once it *)
(* was filled from memory that holds no frame buffer); scanouts maps a     *)
(* scanout id to the resource bound to it (0: none).  The memory the       *)
(* device reads is mem, the pixels at each address that holds some.        *)

ScanoutIds == 0..(VIRTIO_GPU_MAX_SCANOUTS - 1)

NoScanouts == [i \in ScanoutIds |-> 0]

HasResource(g, id) == \E res \in g.resources : res.id = id

Resource(g, id) == CHOOSE res \in g.resources : res.id = id

InResource(r, res) ==
    r.x + r.width <= res.width /\ r.y + r.height <= res.height

DevReply(g, tag) == [gpu |-> g, type |-> tag, pmodes |-> ZeroPmodes]

\* VIRTIO_GPU_CMD_GET_DISPLAY_INFO
DevGetDisplayInfo(g, req) ==
    [gpu |-> g, type |-> "RESP_OK_DISPLAY_INFO", pmodes |-> display]

\* VIRTIO_GPU_CMD_RESOURCE_CREATE_2D: the id must be non-zero and unused
DevResourceCreate2d(g, req) ==
    IF req.resource_id = 0 \/ HasResource(g, req.resource_id)
        THEN DevReply(g, "RESP_ERR_INVALID_RESOURCE_ID")
        ELSE DevReply([g EXCEPT !.resources = @ \cup
                          {[id |-> req.resource_id, format |-> req.format,
                            width |-> req.width, height |-> req.height,
                            backing |-> <<>>,
                            content |-> ZeroFb(req.width * req.height)]}],
                      "RESP_OK_NODATA")

\* VIRTIO_GPU_CMD_RESOURCE_UNREF: the resource goes, and with it the
\* bindings of the scanouts that showed it
DevResourceUnref(g, req) ==
    IF ~HasResource(g, req.resource_id)
        THEN DevReply(g, "RESP_ERR_INVALID_RESOURCE_ID")
        ELSE DevReply([g EXCEPT
                          !.resources = {res \in @ : res.id # req.resource_id},
                          !.scanouts = [i \in ScanoutIds |->
                              IF @[i] = req.resource_id THEN 0 ELSE @[i]]],
                      "RESP_OK_NODATA")

\* VIRTIO_GPU_CMD_RESOURCE_ATTACH_BACKING: nr_entries entries follow the
\* request in a segment of their own
DevResourceAttachBacking(g, req) ==
    IF ~HasResource(g, req.resource_id)
        THEN DevReply(g, "RESP_ERR_INVALID_RESOURCE_ID")
    ELSE IF Resource(g, req.resource_id).backing # <<>>
        THEN DevReply(g, "RESP_ERR_UNSPEC")
    ELSE LET res == Resource(g, req.resource_id)
             entries == [i \in 1..req.nr_entries |->
                            [addr |-> req.addr, length |-> req.length]]
         IN  DevReply([g EXCEPT !.resources = (@ \ {res}) \cup
                          {[res EXCEPT !.backing = entries]}],
                      "RESP_OK_NODATA")

\* VIRTIO_GPU_CMD_RESOURCE_DETACH_BACKING
DevResourceDetachBacking(g, req) ==
    IF ~HasResource(g, req.resource_id)
        THEN DevReply(g, "RESP_ERR_INVALID_RESOURCE_ID")
    ELSE IF Resource(g, req.resource_id).backing = <<>>
        THEN DevReply(g, "RESP_ERR_INVALID_RESOURCE_ID")
    ELSE LET res == Resource(g, req.resource_id)
         IN  DevReply([g EXCEPT !.resources = (@ \ {res}) \cup
                          {[res EXCEPT !.backing = <<>>]}],
                      "RESP_OK_NODATA")

\* VIRTIO_GPU_CMD_SET_SCANOUT: resource id 0 disables the scanout
DevSetScanout(g, req) ==
    IF req.scanout_id \notin ScanoutIds
        THEN DevReply(g, "RESP_ERR_INVALID_SCANOUT_ID")
    ELSE IF req.resource_id = 0
        THEN DevReply([g EXCEPT !.scanouts[req.scanout_id] = 0], "RESP_OK_NODATA")
    ELSE IF ~HasResource(g, req.resource_id)
        THEN DevReply(g, "RESP_ERR_INVALID_RESOURCE_ID")
    ELSE IF ~InResource(req.r, Resource(g, req.resource_id))
        THEN DevReply(g, "RESP_ERR_INVALID_PARAMETER")
    ELSE DevReply([g EXCEPT !.scanouts[req.scanout_id] = req.resource_id],
                  "RESP_OK_NODATA")

\* VIRTIO_GPU_CMD_TRANSFER_TO_HOST_2D: the device copies the rectangle from
\* the backing memory into the resource
DevTransferToHost2d(g, req, mem) ==
    IF ~HasResource(g, req.resource_id)
        THEN DevReply(g, "RESP_ERR_INVALID_RESOURCE_ID")
    ELSE IF Resource(g, req.resource_id).backing = <<>>
        THEN DevReply(g, "RESP_ERR_UNSPEC")
    ELSE IF ~InResource(req.r, Resource(g, req.resource_id))
        THEN DevReply(g, "RESP_ERR_INVALID_PARAMETER")
    ELSE LET res == Resource(g, req.resource_id)
             addr == res.backing[1].addr
             inside(i) == /\ req.r.x <= i % res.width
                          /\ i % res.width < req.r.x + req.r.width
                          /\ req.r.y <= i \div res.width
                          /\ i \div res.width < req.r.y + req.r.height
             content == IF addr \in DOMAIN mem /\ DOMAIN mem[addr] = DOMAIN res.content
                            THEN [i \in DOMAIN res.content |->
                                     IF inside(i) THEN mem[addr][i] ELSE res.content[i]]
                            ELSE <<>>
         IN  DevReply([g EXCEPT !.resources = (@ \ {res}) \cup
                          {[res EXCEPT !.content = content]}],
                      "RESP_OK_NODATA")

\* VIRTIO_GPU_CMD_RESOURCE_FLUSH: the device renders the resource
DevResourceFlush(g, req) ==
    IF ~HasResource(g, req.resource_id)
        THEN DevReply(g, "RESP_ERR_INVALID_RESOURCE_ID")
    ELSE IF ~InResource(req.r, Resource(g, req.resource_id))
        THEN DevReply(g, "RESP_ERR_INVALID_PARAMETER")
    ELSE DevReply(g, "RESP_OK_NODATA")

\* what the device does with a command it accepts
DevExecute(g, req, mem) ==
    CASE req.type = "CMD_GET_DISPLAY_INFO" -> DevGetDisplayInfo(g, req)
      [] req.type = "CMD_RESOURCE_CREATE_2D" -> DevResourceCreate2d(g, req)
      [] req.type = "CMD_RESOURCE_UNREF" -> DevResourceUnref(g, req)
      [] req.type = "CMD_RESOURCE_ATTACH_BACKING" -> DevResourceAttachBacking(g, req)
      [] req.type = "CMD_RESOURCE_DETACH_BACKING" -> DevResourceDetachBacking(g, req)
      [] req.type = "CMD_SET_SCANOUT" -> DevSetScanout(g, req)
      [] req.type = "CMD_TRANSFER_TO_HOST_2D" -> DevTransferToHost2d(g, req, mem)
      [] req.type = "CMD_RESOURCE_FLUSH" -> DevResourceFlush(g, req)
      [] OTHER -> DevReply(g, "RESP_ERR_UNSPEC")

\* the response a device may give to a command for reasons of its own (it
\* is out of memory, it fails), leaving its state as it was; "ZERO" is the
\* response buffer left as the driver zeroed it
DevRefusals == {"RESP_ERR_UNSPEC", "ZERO"}

\* every way the device may complete a published command
DevComplete(g, req, mem) ==
    {DevExecute(g, req, mem)} \cup {DevReply(g, tag) : tag \in DevRefusals}

\* store of 0 to common->device_status: the device is reset, which
\* disables its scanouts and drops its resources
DevStatusStore(g, v) ==
    IF v = 0
        THEN [g EXCEPT !.device_status = 0, !.scanouts = NoScanouts,
                       !.resources = {}]
        ELSE [g EXCEPT !.device_status = v]

---------------------------------------------------------------------------
(* Transactions.  A driver function works on                               *)
(* s = [d, gpu, heap, vga, pub, err]: the device state structure, the      *)
(* device, the heap, the text screen, and the chains published and the     *)
(* errors reported so far by the running operation.  A transaction         *)
(* yields the set of its possible results [s, rc, type, pmodes]: rc is the *)
(* return value, type the hdr.type found in the response buffer (zeroed    *)
(* before the call) and pmodes the rest of a display-info response.        *)

\* the chain goes back to the free pool
virtio_pci_desc_chain_free(s) == 0

\* the memory the device can read pixels from: the frame buffer
GuestMemory(s) ==
    IF s.d.frame_buffer # NULL /\ s.fb # <<>>
        THEN [a \in {s.d.frame_buffer} |-> s.fb]
        ELSE <<>>

\* the chain is on the avail ring and the device is notified; the driver
\* polls until the device has used it, then frees the chain
transact_base(s, req) ==
    {[s |-> [s EXCEPT !.gpu = c.gpu,
                      !.pub = Append(@, [req |-> req, resp |-> c.type])],
      rc |-> IF virtio_pci_desc_chain_free(s) # 0 THEN -1 ELSE 0,
      type |-> c.type, pmodes |-> c.pmodes] :
        c \in DevComplete(s.gpu, req, GuestMemory(s))}

\* virtio_pci_desc_chain_alloc fails: nothing is published, the response
\* stays zeroed
NoChain(s) == [s |-> s, rc |-> -1, type |-> "ZERO", pmodes |-> ZeroPmodes]

\* a chain of one request segment and the response
transact_rw(s, req) ==
    {NoChain(s)} \cup transact_base(s, [req EXCEPT !.nseg = 1])

\* a chain of two request segments and the response
transact_rrw(s, req) ==
    {NoChain(s)} \cup transact_base(s, [req EXCEPT !.nseg = 2])

\* A faulty variant of Failed: the response type is not looked at
Failed_unchecked(t, ok) == t.rc # 0

\* if (transact(...)) return -1;  CHECK_RESP(resp, ok, ...)
Failed(t, ok) == t.rc # 0 \/ t.type # ok

Result(s, rc) == [s |-> s, rc |-> rc]

\* ERROR(msg); return -1;
Fail(s, msg) == Result([s EXCEPT !.err = Append(@, msg)], -1)

---------------------------------------------------------------------------
(* Virtqueue 0, statement by statement *)

QueueSize == 3      \* the virtqueue has QueueSize descriptors (vq->qsz)
MaxCalls == 2       \* SpecTransact follows at most MaxCalls transactions

VIRTQ_DESC_F_NEXT == 1
VIRTQ_DESC_F_WRITE == 2
UINT16_MOD == 65536

DescIds == 0 .. (QueueSize - 1)

\* struct virtq_desc; addr names the buffer the slot points to
ZeroDesc == [addr |-> "none", len |-> "none", flags |-> 0, next |-> 0]

\* flags |= bit
SetFlag(flags, bit) ==
    IF (flags \div bit) % 2 = 1 THEN flags ELSE flags + bit

\* The virtqueue and the position of the control path in a transaction.
\*   desc, free, qsz     the descriptor table, the allocator's free pool and
\*                       the number of descriptors
\*   avail, used         the rings as far as the driver touches them
\*   pc, nseg, desc_idx, waitidx, req, rc    the transaction in progress
\*   log                 what the current transaction has stored so far
\*   entry               desc, free and avail when the transaction was called
\*   issued, taken       the commands published / the chains the device read
VirtqOfSize(qsz) ==
    [desc |-> [i \in 0 .. (qsz - 1) |-> ZeroDesc],
     free |-> 0 .. (qsz - 1),
     avail |-> [idx |-> 0, ring |-> [i \in 0 .. (qsz - 1) |-> 0]],
     used |-> [idx |-> 0],
     qsz |-> qsz,
     pc |-> "idle", nseg |-> 0, desc_idx |-> <<>>, waitidx |-> 0,
     req |-> ZeroReq, resp |-> "ZERO", rc |-> 0,
     log |-> <<>>,
     entry |-> [desc |-> [i \in 0 .. (qsz - 1) |-> ZeroDesc],
                free |-> 0 .. (qsz - 1),
                avail |-> [idx |-> 0, ring |-> [i \in 0 .. (qsz - 1) |-> 0]]],
     calls |-> 0, issued |-> <<>>, taken |-> <<>>]

InitVirtq == VirtqOfSize(QueueSize)

\* the sequences of count distinct free descriptors the allocator may hand out
FreeChains(v, count) ==
    {c \in [1 .. count -> v.free] : \A i, j \in 1 .. count : c[i] = c[j] => i = j}

\* A faulty variant of virtio_pci_desc_chain_alloc: the slots keep the
\* flags their last use left in them
desc_chain_alloc_stale(v, chain) ==
    LET n == Len(chain)
        linked(i) ==
            IF \E k \in 1 .. n : chain[k] = i
                THEN LET k == CHOOSE k \in 1 .. n : chain[k] = i
                     IN  IF k < n
                            THEN [v.desc[i] EXCEPT
                                     !.flags = IF (@ \div VIRTQ_DESC_F_NEXT) % 2 = 1
                                                  THEN @
                                                  ELSE @ + VIRTQ_DESC_F_NEXT,
                                     !.next = chain[k + 1]]
                            ELSE v.desc[i]
                ELSE v.desc[i]
    IN  [v EXCEPT !.desc = [i \in DOMAIN v.desc |-> linked(i)],
                  !.free = @ \ {chain[k] : k \in 1 .. n},
                  !.desc_idx = chain]

\* virtio_pci_desc_chain_alloc succeeds with chain: the slots leave the
\* free pool zeroed and linked, each but the last flagged more-follows
virtio_pci_desc_chain_alloc(v, chain) ==
    LET n == Len(chain)
        linked(i) ==
            IF \E k \in 1 .. n : chain[k] = i
                THEN LET k == CHOOSE k \in 1 .. n : chain[k] = i
                     IN  IF k < n
                            THEN [ZeroDesc EXCEPT !.flags = VIRTQ_DESC_F_NEXT,
                                                  !.next = chain[k + 1]]
                            ELSE ZeroDesc
                ELSE v.desc[i]
    IN  [v EXCEPT !.desc = [i \in DOMAIN v.desc |-> linked(i)],
                  !.free = @ \ {chain[k] : k \in 1 .. n},
                  !.desc_idx = chain]

\* the descriptors of the chain that starts at head, as the device walks it
RECURSIVE ChainFrom(_, _, _)
ChainFrom(desc, head, fuel) ==
    IF fuel = 0 \/ head \notin DOMAIN desc THEN <<>>
    ELSE IF (desc[head].flags \div VIRTQ_DESC_F_NEXT) % 2 = 1
        THEN <<head>> \o ChainFrom(desc, desc[head].next, fuel - 1)
        ELSE <<head>>

\* virtio_pci_desc_chain_free: the chain at didx goes back to the pool
desc_chain_free(v, didx) ==
    LET chain == ChainFrom(v.desc, didx, v.qsz)
    IN  [v EXCEPT !.free = @ \cup {chain[k] : k \in 1 .. Len(chain)}]

\* a call of transact_rw / transact_rrw for the command req begins
transact_call(v, req, count) ==
    [v EXCEPT !.calls = @ + 1, !.log = <<>>, !.req = req, !.nseg = count,
              !.resp = "ZERO", !.desc_idx = <<>>,
              !.entry = [desc |-> v.desc, free |-> v.free, avail |-> v.avail]]

\* A faulty variant of transact_entry: a failed allocation is not noticed
\* before the first descriptor write
transact_unchecked(v, req, count, chain) ==
    IF chain = <<>>
        THEN [transact_call(v, req, count) EXCEPT
                 !.desc[0].addr = "req", !.log = <<"desc">>, !.pc = "idle", !.rc = -1]
        ELSE [virtio_pci_desc_chain_alloc(transact_call(v, req, count), chain)
                 EXCEPT !.pc = "fill"]

\* entry of transact_rw (count = 2) and transact_rrw (count = 3): chain is
\* what virtio_pci_desc_chain_alloc handed out, <<>> if it failed
\*   if (virtio_pci_desc_chain_alloc(dev, qidx, desc_idx, count)) return -1;
transact_entry(v, req, count, chain) ==
    IF chain = <<>>
        THEN [transact_call(v, req, count) EXCEPT !.pc = "idle", !.rc = -1]
        ELSE [virtio_pci_desc_chain_alloc(transact_call(v, req, count), chain)
                 EXCEPT !.pc = "fill"]

\* desc[k-1]->addr = ...; ->len = ...; ->flags |= ...; ->next = ...;
fill_desc(v, k) ==
    LET n == v.nseg
        name == IF k = n THEN "resp" ELSE IF k = 1 THEN "req" ELSE "more"
        i == v.desc_idx[k]
    IN  [v EXCEPT !.desc[i] =
                      [addr |-> name, len |-> name,
                       flags |-> IF k = n THEN SetFlag(@.flags, VIRTQ_DESC_F_WRITE)
                                          ELSE @.flags,
                       next |-> IF k = n THEN 0 ELSE v.desc_idx[k + 1]],
                  !.log = Append(@, "desc")]

\* the descriptor writes of transact_rw / transact_rrw, in order; the
\* device cannot tell them apart before the chain is on the avail ring
RECURSIVE fill_chain(_, _)
fill_chain(v, k) ==
    IF k > v.nseg THEN v ELSE fill_chain(fill_desc(v, k), k + 1)

\* A faulty variant of publish: waitidx is wider than the avail index and
\* does not wrap with it
publish_wide_wait(v) ==
    CASE v.pc = "fill" -> [fill_chain(v, 1) EXCEPT !.pc = "ring"]
      [] v.pc = "ring" ->
            [v EXCEPT !.avail.ring[v.avail.idx % v.qsz] = v.desc_idx[1],
                      !.log = Append(@, "ring"), !.pc = "idx"]
      [] v.pc = "idx"  ->
            [v EXCEPT !.avail.idx = (@ + 1) % UINT16_MOD,
                      !.issued = Append(@, v.req),
                      !.log = Append(@, "idx"), !.pc = "wait"]
      [] v.pc = "wait" -> [v EXCEPT !.waitidx = v.entry.avail.idx + 1,
                                    !.pc = "select"]

\* A faulty variant of publish: the avail index is incremented first, the
\* ring entry written next and the descriptors filled last
publish_unordered(v) ==
    CASE v.pc = "fill" ->
            [v EXCEPT !.avail.idx = (@ + 1) % UINT16_MOD,
                      !.issued = Append(@, v.req),
                      !.log = Append(@, "idx"), !.pc = "ring"]
      [] v.pc = "ring" ->
            [v EXCEPT !.avail.ring[(v.avail.idx - 1) % v.qsz] = v.desc_idx[1],
                      !.log = Append(@, "ring"), !.pc = "idx"]
      [] v.pc = "idx"  -> [fill_chain(v, 1) EXCEPT !.pc = "wait"]
      [] v.pc = "wait" -> [v EXCEPT !.waitidx = v.avail.idx, !.pc = "select"]

\* the chain is filled and pushed onto the avail ring:
\*   vq->avail->ring[vq->avail->idx % vq->qsz] = didx;  mbarrier();
\*   vq->avail->idx++;  waitidx = vq->avail->idx;  mbarrier();
publish(v) ==
    CASE v.pc = "fill" -> [fill_chain(v, 1) EXCEPT !.pc = "ring"]
      [] v.pc = "ring" ->
            [v EXCEPT !.avail.ring[v.avail.idx % v.qsz] = v.desc_idx[1],
                      !.log = Append(@, "ring"), !.pc = "idx"]
      [] v.pc = "idx"  ->
            [v EXCEPT !.avail.idx = (@ + 1) % UINT16_MOD,
                      !.issued = Append(@, v.req),
                      !.log = Append(@, "idx"), !.pc = "wait"]
      [] v.pc = "wait" -> [v EXCEPT !.waitidx = v.avail.idx, !.pc = "select"]

\* the stores to common->queue_select and common->queue_enable, then
\* virtio_pci_virtqueue_notify
notify(v) ==
    CASE v.pc = "select" -> [v EXCEPT !.log = Append(@, "queue_select"),
                                      !.pc = "enable"]
      [] v.pc = "enable" -> [v EXCEPT !.log = Append(@, "queue_enable"),
                                      !.pc = "notify"]
      [] v.pc = "notify" -> [v EXCEPT !.log = Append(@, "notify"), !.pc = "poll"]

\* A faulty variant of complete: the used index is not waited for
complete_nowait(v) ==
    CASE v.pc = "poll" -> [v EXCEPT !.pc = "free"]
      [] v.pc = "free" ->
            [desc_chain_free(v, v.desc_idx[1]) EXCEPT
                !.log = Append(@, "free"), !.pc = "idle", !.rc = 0]

\* A faulty variant of complete: the chain is freed before the wait
complete_free_first(v) ==
    CASE v.pc = "poll" ->
            [desc_chain_free(v, v.desc_idx[1]) EXCEPT
                !.log = Append(@, "free"), !.pc = "free"]
      [] v.pc = "free" ->
            IF v.used.idx = v.waitidx
                THEN [v EXCEPT !.pc = "idle", !.rc = 0]
                ELSE v

\* do { usedidx = load(&used->idx); } while (usedidx != waitidx);
\* then virtio_pci_desc_chain_free and return 0
complete(v) ==
    CASE v.pc = "poll" ->
            IF v.used.idx = v.waitidx THEN [v EXCEPT !.pc = "free"] ELSE v
      [] v.pc = "free" ->
            [desc_chain_free(v, v.desc_idx[1]) EXCEPT
                !.log = Append(@, "free"), !.pc = "idle", !.rc = 0]

\* the next statement of the transaction in progress
transact_step(v) ==
    CASE v.pc \in {"fill", "ring", "idx", "wait"} -> publish(v)
      [] v.pc \in {"select", "enable", "notify"} -> notify(v)
      [] v.pc \in {"poll", "free"} -> complete(v)

\* what the device finds when it takes the next entry of the avail ring:
\* the head and the buffers of the chain, with their write flags
DevTake(v) ==
    LET head == v.avail.ring[v.used.idx % v.qsz]
        chain == ChainFrom(v.desc, head, v.qsz)
    IN  [head |-> head,
         segs |-> [k \in 1 .. Len(chain) |->
                      [addr |-> v.desc[chain[k]].addr,
                       write |-> (v.desc[chain[k]].flags \div VIRTQ_DESC_F_WRITE) % 2 = 1]]]

\* the chain transact_rw / transact_rrw mean to publish for count descriptors
Segments(count) ==
    [k \in 1 .. count |->
        [addr |-> IF k = count THEN "resp" ELSE IF k = 1 THEN "req" ELSE "more",
         write |-> k = count]]

---------------------------------------------------------------------------
(* The parallel port driver.  parport is the software state of the device  *)
(* (struct parport_state) and the callers in it:                           *)
(*   state, lock      s->state, and the caller that holds s->lock (0: none)*)
(*   call[c]          the call caller c is in: its position pc, the        *)
(*                    function fn, the write argument, rc, the ports it    *)
(*                    has touched (io), s->state as its test found it      *)
(*                    (entry)                                              *)
(*   by               the function that stored s->state last               *)
(*   quiet            a read or write has stored BUSY and the interrupt    *)
(*                    handler has not run since                            *)

READY == 0
BUSY == 1

Callers == {1, 2}

NK_CHARDEV_READABLE == "READABLE"
NK_CHARDEV_WRITEABLE == "WRITEABLE"

NoCall ==
    [pc |-> "idle", fn |-> "none", write |-> 0, rc |-> -1, io |-> {},
     entry |-> READY]

\* bringup: memset(s, 0, sizeof(*s)); spinlock_init(&s->lock)
InitParport ==
    [state |-> READY, lock |-> 0, call |-> [c \in Callers |-> NoCall],
     by |-> "bringup", quiet |-> FALSE]

\* STATE_LOCK(s): spins while another caller holds the lock
STATE_LOCK(s, c, next) ==
    IF s.lock = 0
        THEN [s EXCEPT !.lock = c, !.call[c].pc = next]
        ELSE s

\* STATE_UNLOCK(s), and the return that follows it
STATE_UNLOCK(s, c) == [s EXCEPT !.lock = 0, !.call[c].pc = "idle"]

\* one round of the loop of wait_for_attached_device: the status register
\* is read, and the loop ends when its busy bit (active low) is set
wait_for_attached_device(s, c, busy) ==
    [s EXCEPT !.call[c].io = @ \cup {"STAT_PORT"},
              !.call[c].pc = IF busy = 1 THEN "data" ELSE "wait"]

\* A faulty variant of read_write: the call goes on whatever the state is
read_write_unchecked(s, c, busy) ==
    LET pc == s.call[c].pc
    IN  CASE pc = "lock" -> STATE_LOCK(s, c, "check")
          [] pc = "check" -> [s EXCEPT !.call[c].entry = s.state,
                                       !.call[c].pc = "mark"]
          [] pc = "mark" -> [s EXCEPT !.state = BUSY, !.by = "read_write",
                                      !.quiet = TRUE, !.call[c].pc = "wait"]
          [] pc = "wait" -> wait_for_attached_device(s, c, busy)
          [] pc = "data" ->
                [s EXCEPT !.call[c].io = @ \cup {"CTRL_PORT", "DATA_PORT"},
                          !.call[c].rc = 1, !.call[c].pc = "unlock"]
          [] pc = "unlock" -> STATE_UNLOCK(s, c)

\* the next statement of read_write for caller c; busy is the busy bit the
\* status register shows if it is read
\*   STATE_LOCK(s);
\*   if (s->state != READY) { rc = 0; goto out; }
\*   s->state = BUSY;
\*   wait_for_attached_device(s);
\*   if (write) { inb(CTRL); outb(DATA); outb(CTRL) x 3 }
\*   else       { inb(CTRL); outb(CTRL); *data = inb(DATA) }
\*   rc = 1;
\*   out: STATE_UNLOCK(s); return rc;
read_write(s, c, busy) ==
    LET pc == s.call[c].pc
    IN  CASE pc = "lock" -> STATE_LOCK(s, c, "check")
          [] pc = "check" ->
                IF s.state # READY
                    THEN [s EXCEPT !.call[c].entry = s.state,
                                   !.call[c].rc = 0, !.call[c].pc = "unlock"]
                    ELSE [s EXCEPT !.call[c].entry = s.state,
                                   !.call[c].pc = "mark"]
          [] pc = "mark" -> [s EXCEPT !.state = BUSY, !.by = "read_write",
                                      !.quiet = TRUE, !.call[c].pc = "wait"]
          [] pc = "wait" -> wait_for_attached_device(s, c, busy)
          [] pc = "data" ->
                [s EXCEPT !.call[c].io = @ \cup {"CTRL_PORT", "DATA_PORT"},
                          !.call[c].rc = 1, !.call[c].pc = "unlock"]
          [] pc = "unlock" -> STATE_UNLOCK(s, c)

\* the next statement of status for caller c
\*   STATE_LOCK(s); rc = s->state == READY; STATE_UNLOCK(s);
\*   return rc ? NK_CHARDEV_READABLE | NK_CHARDEV_WRITEABLE : 0;
status(s, c) ==
    LET pc == s.call[c].pc
    IN  CASE pc = "lock" -> STATE_LOCK(s, c, "check")
          [] pc = "check" ->
                [s EXCEPT !.call[c].entry = s.state,
                          !.call[c].rc = IF s.state = READY
                                            THEN {NK_CHARDEV_READABLE,
                                                  NK_CHARDEV_WRITEABLE}
                                            ELSE {},
                          !.call[c].pc = "unlock"]
          [] pc = "unlock" -> STATE_UNLOCK(s, c)

\* interrupt_handler: s->state = READY; it takes no lock
interrupt_handler(s) ==
    [s EXCEPT !.state = READY, !.by = "interrupt_handler", !.quiet = FALSE]

---------------------------------------------------------------------------
(* virtio_gpu_init.  k is what the kernel holds around the devices:        *)
(* num_devs, the device state structures allocated, the virtio devices     *)
(* whose state pointer is set, the framework steps done, the devices with  *)
(* initialized virtqueues, the registered GPU devices, the reserved        *)
(* interrupt vectors, the handlers and the MSI-X tables.  A virtio device  *)
(* is v = [id, itype, msix_size]; its state structure is named by its id.  *)

MaxDevices == 2     \* virtio_gpu_init is called for at most MaxDevices devices
MaxVectors == 2     \* a device has at most MaxVectors MSI-X table entries

FIRST_VECTOR == 32

InitSteps ==
    {"malloc", "ack_device", "read_features", "write_features",
     "virtqueue_init", "gpu_dev_register", "find_and_reserve_range",
     "register_int_handler", "set_msi_x_entry", "unmask_msi_x_entry",
     "unmask_msi_x_all"}

BootKernel ==
    [num_devs |-> 0, allocated |-> {}, state |-> {}, done |-> {},
     virtqs |-> {}, gpu_devs |-> {}, vectors |-> {}, handlers |-> {},
     msix |-> {}, unmasked |-> {}]

\* ERROR(msg); return -1;
InitFail(k, msg) == [k |-> k, rc |-> -1, err |-> <<msg>>]

\* free(dev);
InitFree(k, v) == [k EXCEPT !.allocated = @ \ {v.id}]

\* virtio_pci_virtqueue_deinit(virtio_dev);
virtio_pci_virtqueue_deinit(k, v) == [k EXCEPT !.virtqs = @ \ {v.id}]

\* idt_find_and_reserve_range(1, 0, &vec): the lowest vector not reserved
FreeVector(k) ==
    CHOOSE vec \in FIRST_VECTOR .. (FIRST_VECTOR + Cardinality(k.vectors)) :
        /\ vec \notin k.vectors
        /\ \A u \in FIRST_VECTOR .. (vec - 1) : u \in k.vectors

\* for (i=0;i<num_vec;i++) { ... }  and the unmask of the whole function;
\* fail names the step that fails and the entry it fails for
RECURSIVE msix_loop(_, _, _, _)
msix_loop(k, v, i, fail) ==
    LET fails(step) == fail.step = step /\ fail.i = i
        vec == FreeVector(k)
        k1 == [k EXCEPT !.vectors = @ \cup {vec}]
        k2 == [k1 EXCEPT !.handlers = @ \cup {[vec |-> vec, state |-> v.id]}]
        k3 == [k2 EXCEPT !.msix = @ \cup {[dev |-> v.id, entry |-> i,
                                            vec |-> vec, masked |-> TRUE]}]
        k4 == [k3 EXCEPT !.msix = (@ \ {[dev |-> v.id, entry |-> i,
                                         vec |-> vec, masked |-> TRUE]})
                                  \cup {[dev |-> v.id, entry |-> i,
                                         vec |-> vec, masked |-> FALSE]}]
    IN  IF i >= v.msix_size
            THEN IF fail.step = "unmask_msi_x_all"
                    THEN InitFail(k, "failed to unmask device")
                    ELSE [k |-> [k EXCEPT !.unmasked = @ \cup {v.id}],
                          rc |-> 0, err |-> <<>>]
        ELSE IF fails("find_and_reserve_range")
            THEN InitFail(k, "cannot get vector...")
        ELSE IF fails("register_int_handler")
            THEN InitFail(k1, "failed to register int handler")
        ELSE IF fails("set_msi_x_entry")
            THEN InitFail(InitFree(virtio_pci_virtqueue_deinit(k2, v), v),
                          "failed to set MSI-X entry")
        ELSE IF fails("unmask_msi_x_entry")
            THEN InitFail(k3, "failed to unmask entry")
        ELSE msix_loop(k4, v, i + 1, fail)

\* virtio_gpu_init(virtio_dev) where the step fail.step fails ("none": no
\* step does)
virtio_gpu_init(k, v, fail) ==
    LET k0 == [k EXCEPT !.allocated = @ \cup {v.id}]
        k1 == [k0 EXCEPT !.done = @ \cup {<<v.id, "ack_device">>}]
        k2 == [k1 EXCEPT !.done = @ \cup {<<v.id, "read_features">>}]
        k3 == [k2 EXCEPT !.done = @ \cup {<<v.id, "write_features">>}]
        k4 == [k3 EXCEPT !.virtqs = @ \cup {v.id}]
        k5 == [k4 EXCEPT !.state = @ \cup {v.id}, !.num_devs = @ + 1]
        k6 == [k5 EXCEPT !.gpu_devs = @ \cup {[name |-> k.num_devs,
                                                state |-> v.id]}]
    IN  IF fail.step = "malloc" THEN InitFail(k, "cannot allocate state")
        ELSE IF fail.step = "ack_device"
            THEN InitFail(InitFree(k0, v), "Could not acknowledge device")
        ELSE IF fail.step = "read_features"
            THEN InitFail(InitFree(k1, v), "Unable to read device features")
        ELSE IF fail.step = "write_features"
            THEN InitFail(InitFree(k2, v), "Unable to write device features")
        ELSE IF fail.step = "virtqueue_init"
            THEN InitFail(InitFree(k3, v), "failed to initialize virtqueues")
        ELSE IF fail.step = "gpu_dev_register"
            THEN InitFail(InitFree(virtio_pci_virtqueue_deinit(k5, v), v),
                          "failed to register block device")
        ELSE IF v.itype # "MSI_X"
            THEN InitFail(k6, "This device must operate with MSI-X")
        ELSE msix_loop(k6, v, 0, fail)

\* the kernel after virtio_gpu_init has succeeded for one MSI-X device
\* with two table entries
InitKernel ==
    virtio_gpu_init(BootKernel, [id |-> 0, itype |-> "MSI_X", msix_size |-> 2],
                    [step |-> "none", i |-> 0]).k

---------------------------------------------------------------------------
(* Mode discovery *)

\* Faulty variants of update_modes, which the properties of the display-info
\* cache must tell from it.

\* the display info is fetched on every call
update_modes_refetch(s) ==
    LET req == [ZeroReq EXCEPT !.type = "CMD_GET_DISPLAY_INFO"]
        zeroed == [s EXCEPT !.d.disp_info_resp = ZeroDispInfo]
    IN  {LET got == [t.s EXCEPT !.d.disp_info_resp =
                        [type |-> t.type, pmodes |-> t.pmodes]]
         IN  IF Failed(t, "RESP_OK_DISPLAY_INFO")
                 THEN Fail(got, "Failed to get display info")
                 ELSE Result([got EXCEPT !.d.have_disp_info = TRUE], 0) :
            t \in transact_rw(zeroed, req)}

\* the fetched table is used, have_disp_info is never set
update_modes_unflagged(s) ==
    LET req == [ZeroReq EXCEPT !.type = "CMD_GET_DISPLAY_INFO"]
        zeroed == [s EXCEPT !.d.disp_info_resp = ZeroDispInfo]
    IN  {LET got == [t.s EXCEPT !.d.disp_info_resp =
                        [type |-> t.type, pmodes |-> t.pmodes]]
         IN  IF Failed(t, "RESP_OK_DISPLAY_INFO")
                 THEN Fail(got, "Failed to get display info")
                 ELSE Result(got, 0) :
            t \in transact_rw(zeroed, req)}

update_modes(s) ==
    IF s.d.have_disp_info
        THEN {Result(s, 0)}
        ELSE LET req == [ZeroReq EXCEPT !.type = "CMD_GET_DISPLAY_INFO"]
                 zeroed == [s EXCEPT !.d.disp_info_resp = ZeroDispInfo]
             IN  {LET got == [t.s EXCEPT !.d.disp_info_resp =
                                 [type |-> t.type, pmodes |-> t.pmodes]]
                  IN  IF Failed(t, "RESP_OK_DISPLAY_INFO")
                          THEN Fail(got, "Failed to get display info")
                          ELSE Result([got EXCEPT !.d.have_disp_info = TRUE], 0) :
                     t \in transact_rw(zeroed, req)}

fill_out_mode(dd, modenum) ==
    IF modenum = 0
        THEN [type |-> "TEXT", width |-> TEXT_WIDTH, height |-> TEXT_HEIGHT,
              channel_offset |-> <<0, 1, -1, -1>>, flags |-> {},
              mouse_cursor_width |-> 0, mouse_cursor_height |-> 0,
              mode_data |-> modenum]
        ELSE [type |-> "GRAPHICS_2D",
              width |-> dd.disp_info_resp.pmodes[modenum - 1].r.width,
              height |-> dd.disp_info_resp.pmodes[modenum - 1].r.height,
              channel_offset |-> <<0, 1, 2, 3>>, flags |-> {"HAS_MOUSE_CURSOR"},
              mouse_cursor_width |-> 64, mouse_cursor_height |-> 64,
              mode_data |-> modenum]

\* for (i = 0; i < 16 && cur < limit; i++) if (pmodes[i].enabled) modes[cur++] = ...
\* modes is the sequence of the slots written so far, so cur = Len(modes)
RECURSIVE FillGraphicsModes(_, _, _, _)
FillGraphicsModes(dd, i, modes, limit) ==
    IF ~(i < VIRTIO_GPU_MAX_SCANOUTS /\ Len(modes) < limit)
        THEN modes
    ELSE IF dd.disp_info_resp.pmodes[i].enabled # 0
        THEN FillGraphicsModes(dd, i + 1, Append(modes, fill_out_mode(dd, i + 1)), limit)
    ELSE FillGraphicsModes(dd, i + 1, modes, limit)

\* A faulty variant of get_available_modes: *num is not checked
get_available_modes_unchecked(s, num) ==
    {IF u.rc # 0
         THEN [s |-> Fail(u.s, "Cannot update modes").s,
               rc |-> -1, modes |-> <<>>, num |-> num]
         ELSE LET limit == IF num > VIRTIO_GPU_MAX_SCANOUTS
                               THEN MODE_LIMIT ELSE num - 1
                  modes == FillGraphicsModes(u.s.d, 0,
                               <<fill_out_mode(u.s.d, 0)>>, limit)
              IN  [s |-> u.s, rc |-> 0, modes |-> modes, num |-> Len(modes)] :
        u \in update_modes(s)}

\* results [s, rc, modes, num]: the mode slots written and *num on return
get_available_modes(s, num) ==
    IF num < 2
        THEN {[s |-> Fail(s, "Must provide at least two mode slots").s,
               rc |-> -1, modes |-> <<>>, num |-> num]}
        ELSE {IF u.rc # 0
                  THEN [s |-> Fail(u.s, "Cannot update modes").s,
                        rc |-> -1, modes |-> <<>>, num |-> num]
                  ELSE LET limit == IF num > VIRTIO_GPU_MAX_SCANOUTS
                                        THEN MODE_LIMIT ELSE num - 1
                           modes == FillGraphicsModes(u.s.d, 0,
                                        <<fill_out_mode(u.s.d, 0)>>, limit)
                       IN  [s |-> u.s, rc |-> 0, modes |-> modes, num |-> Len(modes)] :
                 u \in update_modes(s)}

get_mode(s) == fill_out_mode(s.d, s.d.cur_mode)

---------------------------------------------------------------------------
(* reset: back to text mode *)

\* A faulty variant of reset_release: cur_mode is cleared before the store
\* to the device status register
reset_release_mode_first(s) ==
    [s EXCEPT !.heap = free(@, s.d.frame_buffer),
              !.d.frame_buffer = NULL,
              !.fb = <<>>,
              !.gpu = DevStatusStore(@, 0),
              !.d.cur_mode = 0,
              !.steps = @ \o <<"free(frame_buffer)", "cur_mode = 0",
                               "device_status = 0">>]

\* the tail of reset, after both teardown commands succeeded:
\*   free(d->frame_buffer); d->frame_buffer = NULL;
\*   virtio_pci_atomic_store(&d->virtio_dev->common->device_status, 0);
\*   d->cur_mode = 0;
reset_release(s) ==
    [s EXCEPT !.heap = free(@, s.d.frame_buffer),
              !.d.frame_buffer = NULL,
              !.fb = <<>>,
              !.gpu = DevStatusStore(@, 0),
              !.d.cur_mode = 0,
              !.steps = @ \o <<"free(frame_buffer)", "device_status = 0",
                               "cur_mode = 0">>]

\* RESOURCE_UNREF of the screen resource, then the tail
reset_unref(s) ==
    LET req == [ZeroReq EXCEPT !.type = "CMD_RESOURCE_UNREF",
                               !.resource_id = SCREEN_RID]
    IN  {IF Failed(t, "RESP_OK_NODATA")
             THEN Fail(t.s, "failed to unref screen resource")
             ELSE Result(reset_release(t.s), 0) :
            t \in transact_rw(s, req)}

reset(s) ==
    IF s.d.cur_mode # 0
        THEN LET req == [ZeroReq EXCEPT !.type = "CMD_RESOURCE_DETACH_BACKING",
                                        !.resource_id = SCREEN_RID]
             IN  UNION {IF Failed(t, "RESP_OK_NODATA")
                            THEN {Fail(t.s, "failed to detach screen framebuffer")}
                            ELSE reset_unref(t.s) :
                           t \in transact_rw(s, req)}
        ELSE {Result(s, 0)}

---------------------------------------------------------------------------
(* flush *)

\* the scanout of the current mode: &d->disp_info_resp.pmodes[d->cur_mode-1]
CurrentScanout(dd) == dd.disp_info_resp.pmodes[dd.cur_mode - 1]

\* the second command of flush: RESOURCE_FLUSH
flush_resource(s) ==
    LET req == [ZeroReq EXCEPT !.type = "CMD_RESOURCE_FLUSH",
                               !.r = CurrentScanout(s.d).r,
                               !.resource_id = SCREEN_RID]
    IN  {IF Failed(t, "RESP_OK_NODATA")
             THEN Fail(t.s, "failed to tell GPU to copy from resource to screen")
             ELSE Result(t.s, 0) :
            t \in transact_rw(s, req)}

\* Faulty variants of flush, which the properties of flush must tell from it.

\* RESOURCE_FLUSH is issued whatever became of TRANSFER_TO_HOST_2D
flush_unordered(s) ==
    IF s.d.cur_mode = 0
        THEN {Result(s, 0)}
        ELSE LET req == [ZeroReq EXCEPT !.type = "CMD_TRANSFER_TO_HOST_2D",
                                        !.r = CurrentScanout(s.d).r,
                                        !.offset = 0,
                                        !.resource_id = SCREEN_RID]
             IN  UNION {flush_resource(t.s) : t \in transact_rw(s, req)}

\* no early return in text mode: the transfer is issued with a zeroed rectangle
flush_in_text(s) ==
    LET req == [ZeroReq EXCEPT !.type = "CMD_TRANSFER_TO_HOST_2D",
                               !.r = IF s.d.cur_mode = 0 THEN ZeroRect
                                     ELSE CurrentScanout(s.d).r,
                               !.offset = 0,
                               !.resource_id = SCREEN_RID]
    IN  UNION {IF Failed(t, "RESP_OK_NODATA")
                   THEN {Fail(t.s, "failed to tell GPU to DMA from framebuffer")}
                   ELSE IF s.d.cur_mode = 0 THEN {Result(t.s, 0)}
                   ELSE flush_resource(t.s) :
                  t \in transact_rw(s, req)}

\* a failed flush rolls back: the driver falls back to text mode
flush_rollback(s) ==
    IF s.d.cur_mode = 0
        THEN {Result(s, 0)}
        ELSE LET req == [ZeroReq EXCEPT !.type = "CMD_TRANSFER_TO_HOST_2D",
                                        !.r = CurrentScanout(s.d).r,
                                        !.offset = 0,
                                        !.resource_id = SCREEN_RID]
                 unwind(r) == IF r.rc = 0 THEN r
                              ELSE Result(reset_release(r.s), -1)
             IN  UNION {IF Failed(t, "RESP_OK_NODATA")
                            THEN {unwind(Fail(t.s, "failed to tell GPU to DMA from framebuffer"))}
                            ELSE {unwind(r) : r \in flush_resource(t.s)} :
                           t \in transact_rw(s, req)}

flush(s) ==
    IF s.d.cur_mode = 0
        THEN {Result(s, 0)}
        ELSE LET req == [ZeroReq EXCEPT !.type = "CMD_TRANSFER_TO_HOST_2D",
                                        !.r = CurrentScanout(s.d).r,
                                        !.offset = 0,
                                        !.resource_id = SCREEN_RID]
             IN  UNION {IF Failed(t, "RESP_OK_NODATA")
                            THEN {Fail(t.s, "failed to tell GPU to DMA from framebuffer")}
                            ELSE flush_resource(t.s) :
                           t \in transact_rw(s, req)}

---------------------------------------------------------------------------
(* Drawing.  A pixel is the sequence of its four channel bytes; raw is the  *)
(* same four bytes read as one 32-bit word, so an operation on raw that    *)
(* works bit by bit is the same operation on each byte.                    *)

UINT8_MAX == 255

Byte == 0..UINT8_MAX

RECURSIVE BitAnd(_, _)
\* a & b on bytes
BitAnd(a, b) ==
    IF a = 0 \/ b = 0 THEN 0
    ELSE (a % 2) * (b % 2) + 2 * BitAnd(a \div 2, b \div 2)

RECURSIVE BitOr(_, _)
\* a | b on bytes
BitOr(a, b) ==
    IF a = 0 THEN b
    ELSE IF b = 0 THEN a
    ELSE (IF a % 2 = 1 \/ b % 2 = 1 THEN 1 ELSE 0)
             + 2 * BitOr(a \div 2, b \div 2)

RECURSIVE BitXor(_, _)
\* a ^ b on bytes
BitXor(a, b) ==
    IF a = 0 THEN b
    ELSE IF b = 0 THEN a
    ELSE (IF a % 2 # b % 2 THEN 1 ELSE 0) + 2 * BitXor(a \div 2, b \div 2)

\* ~a on a byte of raw
BitNot(a) == UINT8_MAX - a

\* A faulty variant of saturating_add8: the sum wraps
wrapping_add8(a, b) == (a + b) % (UINT8_MAX + 1)

\* uint8_t c = a + b; if (c < a) c = UINT8_MAX;
saturating_add8(a, b) ==
    LET c == (a + b) % (UINT8_MAX + 1)
    IN  IF c < a THEN UINT8_MAX ELSE c

\* uint8_t c = a - b; if (c > a) c = 0;
saturating_sub8(a, b) ==
    LET c == (a - b + UINT8_MAX + 1) % (UINT8_MAX + 1)
    IN  IF c > a THEN 0 ELSE c

\* uint16_t c = a * b; if (c > UINT8_MAX) c = UINT8_MAX;
saturating_mul8(a, b) ==
    LET c == (a * b) % 65536
    IN  IF c > UINT8_MAX THEN UINT8_MAX ELSE c

\* b == 0 ? UINT8_MAX : a / b
saturating_div8(a, b) ==
    IF b = 0 THEN UINT8_MAX ELSE a \div b

\* the values of nk_gpu_dev_bit_blit_op_t; "OTHER" is any value outside them
BlitOps ==
    {"COPY", "NOT", "AND", "OR", "NAND", "NOR", "XOR", "XNOR",
     "PLUS", "MINUS", "MULTIPLY", "DIVIDE"}

\* A faulty variant of apply_with_blit: NOT inverts the new pixel
apply_with_blit_not_new(oldpixel, newpixel, blit_op) ==
    CASE blit_op = "NOT" -> [i \in 1..4 |-> BitNot(newpixel[i])]
      [] blit_op = "AND" -> [i \in 1..4 |-> BitAnd(oldpixel[i], newpixel[i])]
      [] blit_op = "OR" -> [i \in 1..4 |-> BitOr(oldpixel[i], newpixel[i])]
      [] blit_op = "NAND" -> [i \in 1..4 |-> BitNot(BitAnd(oldpixel[i], newpixel[i]))]
      [] blit_op = "NOR" -> [i \in 1..4 |-> BitNot(BitOr(oldpixel[i], newpixel[i]))]
      [] blit_op = "XOR" -> [i \in 1..4 |-> BitXor(oldpixel[i], newpixel[i])]
      [] blit_op = "XNOR" -> [i \in 1..4 |-> BitNot(BitXor(oldpixel[i], newpixel[i]))]
      [] blit_op = "PLUS" -> [i \in 1..4 |-> saturating_add8(oldpixel[i], newpixel[i])]
      [] blit_op = "MINUS" -> [i \in 1..4 |-> saturating_sub8(oldpixel[i], newpixel[i])]
      [] blit_op = "MULTIPLY" -> [i \in 1..4 |-> saturating_mul8(oldpixel[i], newpixel[i])]
      [] blit_op = "DIVIDE" -> [i \in 1..4 |-> saturating_div8(oldpixel[i], newpixel[i])]
      [] OTHER -> newpixel

\* the pixel *oldpixel holds after apply_with_blit(oldpixel, newpixel, op)
apply_with_blit(oldpixel, newpixel, blit_op) ==
    CASE blit_op = "COPY" -> newpixel
      [] blit_op = "NOT" -> [i \in 1..4 |-> BitNot(oldpixel[i])]
      [] blit_op = "AND" -> [i \in 1..4 |-> BitAnd(oldpixel[i], newpixel[i])]
      [] blit_op = "OR" -> [i \in 1..4 |-> BitOr(oldpixel[i], newpixel[i])]
      [] blit_op = "NAND" -> [i \in 1..4 |-> BitNot(BitAnd(oldpixel[i], newpixel[i]))]
      [] blit_op = "NOR" -> [i \in 1..4 |-> BitNot(BitOr(oldpixel[i], newpixel[i]))]
      [] blit_op = "XOR" -> [i \in 1..4 |-> BitXor(oldpixel[i], newpixel[i])]
      [] blit_op = "XNOR" -> [i \in 1..4 |-> BitNot(BitXor(oldpixel[i], newpixel[i]))]
      [] blit_op = "PLUS" -> [i \in 1..4 |-> saturating_add8(oldpixel[i], newpixel[i])]
      [] blit_op = "MINUS" -> [i \in 1..4 |-> saturating_sub8(oldpixel[i], newpixel[i])]
      [] blit_op = "MULTIPLY" -> [i \in 1..4 |-> saturating_mul8(oldpixel[i], newpixel[i])]
      [] blit_op = "DIVIDE" -> [i \in 1..4 |-> saturating_div8(oldpixel[i], newpixel[i])]
      [] OTHER -> newpixel

Coord(x, y) == [x |-> x, y |-> y]

\* is the coordinate within the box?
in_box(b, c) ==
    /\ c.x >= b.x /\ c.x < b.x + b.width
    /\ c.y >= b.y /\ c.y < b.y + b.height

\* the pixel index of ((nk_gpu_dev_pixel_t*)d->frame_buffer) + y*width + x
get_pixel_pointer(dd, x, y) == y * dd.frame_box.width + x

\* oldpixel = op(oldpixel, newpixel) if location is in the clipping box;
\* oldpixel is a pixel index: the pixel is one of the buffer, or the store
\* goes to the memory beyond the buffer
clip_apply_with_blit(s, location, oldpixel, newpixel, blit_op) ==
    IF ~in_box(s.d.clipping_box, location)
        THEN s
    ELSE IF oldpixel \in DOMAIN s.fb
        THEN [s EXCEPT !.fb[oldpixel] = apply_with_blit(@, newpixel, blit_op)]
    ELSE [s EXCEPT !.stray = @ \cup {oldpixel}]

\* a pointer argument: <<>> is the null pointer, <<v>> points to v
NullPtr == <<>>

PtrTo(v) == <<v>>

\* d->clipping_box = box == NULL ? d->frame_box : *box
graphics_set_clipping_box(s, box) ==
    IF box = NullPtr
        THEN [s EXCEPT !.d.clipping_box = s.d.frame_box]
        ELSE [s EXCEPT !.d.clipping_box = box[1]]

graphics_draw_pixel(s, location, pixel) ==
    clip_apply_with_blit(
        [s EXCEPT !.plotted = Append(@, location)],
        location, get_pixel_pointer(s.d, location.x, location.y), pixel, "COPY")

\* A faulty variant of draw_line_loop: the end test comes before the pixel
draw_line_loop_open(s, x0, y0, x1, y1, dx, sx, dy, sy, error, pixel) ==
    LET RECURSIVE loop(_, _, _, _)
        loop(t, x, y, e) ==
            IF x = x1 /\ y = y1 THEN t
            ELSE LET t1 == graphics_draw_pixel(t, Coord(x, y), pixel)
                     e2 == 2 * e
                     xe == IF e2 >= dy THEN e + dy ELSE e
                     xx == IF e2 >= dy THEN x + sx ELSE x
                 IN  IF e2 >= dy /\ x = x1 THEN t1
                     ELSE IF e2 <= dx /\ y = y1 THEN t1
                     ELSE IF e2 <= dx THEN loop(t1, xx, y + sy, xe + dx)
                     ELSE loop(t1, xx, y, xe)
    IN  loop(s, x0, y0, error)

\* while (1) { draw the pixel at (x0,y0); leave at the end point; step in x
\* when 2*error >= dy, in y when 2*error <= dx, leaving if the coordinate to
\* step has reached the end point's }.  The first test never holds (drawing
\* a pixel counts no call); it has the pixel drawn before the tests that
\* follow it in the code are evaluated.
RECURSIVE draw_line_loop(_, _, _, _, _, _, _, _, _, _, _)
draw_line_loop(s, x0, y0, x1, y1, dx, sx, dy, sy, error, pixel) ==
    LET s1 == graphics_draw_pixel(s, Coord(x0, y0), pixel)
        e2 == 2 * error
        errorx == IF e2 >= dy THEN error + dy ELSE error
        x0x == IF e2 >= dy THEN x0 + sx ELSE x0
    IN  IF s1.draws # s.draws THEN s1
        ELSE IF x0 = x1 /\ y0 = y1 THEN s1
        ELSE IF e2 >= dy /\ x0 = x1 THEN s1
        ELSE IF e2 <= dx /\ y0 = y1 THEN s1
        ELSE IF e2 <= dx
            THEN draw_line_loop(s1, x0x, y0 + sy, x1, y1, dx, sx, dy, sy,
                                errorx + dx, pixel)
        ELSE draw_line_loop(s1, x0x, y0, x1, y1, dx, sx, dy, sy, errorx, pixel)

Abs(n) == IF n > 0 THEN n ELSE -n

\* Bresenham's line from start to end
graphics_draw_line(s, start, end, pixel) ==
    LET dx == Abs(end.x - start.x)
        sx == IF start.x < end.x THEN 1 ELSE -1
        dy == -Abs(end.y - start.y)
        sy == IF start.y < end.y THEN 1 ELSE -1
    IN  draw_line_loop(s, start.x, start.y, end.x, end.y, dx, sx, dy, sy,
                       dx + dy, pixel)

\* for (i < box->width) for (j < box->height): the blit step at
\* (box->x + i, box->y + j); k counts the iterations done, j running fastest
RECURSIVE fill_box_with_pixel_loop(_, _, _, _, _)
fill_box_with_pixel_loop(s, box, pixel, blit_op, k) ==
    IF k >= box.width * box.height THEN s
    ELSE LET location == Coord(box.x + (k \div box.height), box.y + (k % box.height))
         IN  fill_box_with_pixel_loop(
                 clip_apply_with_blit(s, location,
                     get_pixel_pointer(s.d, location.x, location.y), pixel, blit_op),
                 box, pixel, blit_op, k + 1)

\* A faulty variant of graphics_fill_box_with_pixel: the fill is flushed to
\* the device before the call returns
graphics_fill_box_with_pixel_flushed(s, box, pixel, blit_op) ==
    (CHOOSE r \in flush(fill_box_with_pixel_loop(s, box, pixel, blit_op, 0)) :
        r.rc = 0).s

graphics_fill_box_with_pixel(s, box, pixel, blit_op) ==
    fill_box_with_pixel_loop(s, box, pixel, blit_op, 0)

\* what stray holds once a pixel has been read through the null pointer
NullAccess == -1

\* a bitmap: width, height and width * height pixels, row after row
Bitmap(width, height, pixels) ==
    [width |-> width, height |-> height,
     pixels |-> [i \in 0..(width * height - 1) |-> pixels[i + 1]]]

\* NULL outside the bitmap, else &bitmap->pixels[x + y * bitmap->width]
get_bitmap_pixel_pointer(bitmap, x, y) ==
    IF x >= bitmap.width \/ y >= bitmap.height THEN NullPtr
    ELSE PtrTo(x + (y * bitmap.width))

\* the blit step with the pixel newpixel points to in the bitmap; the step
\* reads it only for a location inside the clipping box
clip_apply_bitmap_pixel(s, location, bitmap, newpixel, blit_op) ==
    IF newpixel # NullPtr
        THEN clip_apply_with_blit(s, location,
                 get_pixel_pointer(s.d, location.x, location.y),
                 bitmap.pixels[newpixel[1]], blit_op)
    ELSE IF in_box(s.d.clipping_box, location)
        THEN [s EXCEPT !.stray = @ \cup {NullAccess}]
    ELSE s

\* for (i < box->width) for (j < box->height): the blit step at
\* (box->x + i, box->y + j) with the bitmap pixel at (i % bitmap->width,
\* j % bitmap->height); k counts the iterations done, j running fastest
RECURSIVE fill_box_with_bitmap_loop(_, _, _, _, _)
fill_box_with_bitmap_loop(s, box, bitmap, blit_op, k) ==
    IF k >= box.width * box.height THEN s
    ELSE LET i == k \div box.height
             j == k % box.height
         IN  fill_box_with_bitmap_loop(
                 clip_apply_bitmap_pixel(s, Coord(box.x + i, box.y + j), bitmap,
                     get_bitmap_pixel_pointer(bitmap, i % bitmap.width,
                                              j % bitmap.height), blit_op),
                 box, bitmap, blit_op, k + 1)

graphics_fill_box_with_bitmap(s, box, bitmap, blit_op) ==
    fill_box_with_bitmap_loop(s, box, bitmap, blit_op, 0)

\* The blit step of copy_box: the new pixel is read from the frame buffer at
\* index newpixel when the location is inside the clipping box.  An index
\* outside the buffer is a read of other memory: it is kept in stray and
\* yields beyond, a pixel the caller of this model chooses.
clip_apply_frame_pixel(s, location, oldpixel, newpixel, blit_op, beyond) ==
    IF ~in_box(s.d.clipping_box, location) THEN s
    ELSE IF newpixel \in DOMAIN s.fb
        THEN clip_apply_with_blit(s, location, oldpixel, s.fb[newpixel], blit_op)
    ELSE clip_apply_with_blit([s EXCEPT !.stray = @ \cup {newpixel}],
                              location, oldpixel, beyond, blit_op)

\* for (i < dest_box->width) for (j < dest_box->height): the blit step at
\* (dest_box->x + i, dest_box->y + j) with the frame pixel at
\* (source_box->x + i % source_box->width, source_box->y + j % source_box->height);
\* k counts the iterations done, j running fastest
RECURSIVE copy_box_loop(_, _, _, _, _, _)
copy_box_loop(s, source_box, dest_box, blit_op, beyond, k) ==
    IF k >= dest_box.width * dest_box.height THEN s
    ELSE LET i == k \div dest_box.height
             j == k % dest_box.height
             location == Coord(dest_box.x + i, dest_box.y + j)
         IN  copy_box_loop(
                 clip_apply_frame_pixel(s, location,
                     get_pixel_pointer(s.d, location.x, location.y),
                     get_pixel_pointer(s.d, source_box.x + (i % source_box.width),
                                       source_box.y + (j % source_box.height)),
                     blit_op, beyond),
                 source_box, dest_box, blit_op, beyond, k + 1)

graphics_copy_box(s, source_box, dest_box, blit_op, beyond) ==
    copy_box_loop(s, source_box, dest_box, blit_op, beyond, 0)

\* A faulty variant of graphics_draw_poly: the last point is not joined to
\* the first
graphics_draw_poly_open(s, coord_list, count, pixel) ==
    LET RECURSIVE loop(_, _)
        loop(t, i) ==
            IF i + 1 >= count THEN t
            ELSE loop(graphics_draw_line(t, coord_list[i + 1], coord_list[i + 2],
                                         pixel), i + 1)
    IN  loop(s, 0)

\* for (i = 0; i < count; i++) draw_line(&coord_list[i],
\* &coord_list[(i + 1) % count]); coord_list[i] of the code is coord_list[i + 1]
RECURSIVE draw_poly_loop(_, _, _, _, _)
draw_poly_loop(s, coord_list, count, pixel, i) ==
    IF i >= count THEN s
    ELSE draw_poly_loop(
             graphics_draw_line(s, coord_list[i + 1],
                                coord_list[((i + 1) % count) + 1], pixel),
             coord_list, count, pixel, i + 1)

graphics_draw_poly(s, coord_list, count, pixel) ==
    draw_poly_loop(s, coord_list, count, pixel, 0)

---------------------------------------------------------------------------
(* The state after virtio_gpu_init, and the public operations as actions *)

\* the scanout tables a device may report: scanout i, when enabled, is
\* (i + 4) x (i + 3) pixels; a disabled scanout reads as zeros
Scanout(i) == [r |-> Rect(0, 0, i + 4, i + 3), enabled |-> 1]

DisplayTable(enabledIds) ==
    [i \in ScanoutIds |-> IF i \in enabledIds THEN Scanout(i) ELSE ZeroDisplay]

DisplayTables ==
    {DisplayTable(e) : e \in {{}, {0}, {1, 3}, 0..13, 0..14, ScanoutIds}}

\* a display whose only enabled scanout is scanout 0, width x height
FrameTable(width, height) ==
    [i \in ScanoutIds |-> IF i = 0 THEN [r |-> Rect(0, 0, width, height), enabled |-> 1]
                                   ELSE ZeroDisplay]

\* memset(dev, 0, sizeof(*dev))
InitDev ==
    [have_disp_info |-> FALSE, disp_info_resp |-> ZeroDispInfo, cur_mode |-> 0,
     frame_buffer |-> NULL, frame_box |-> ZeroRect, clipping_box |-> ZeroRect,
     cursor_buffer |-> NULL, cursor_box |-> ZeroRect, text_snapshot |-> "zero"]

\* the device reports one of these tables; inputs are the arguments a
\* behaviour may apply a function to
InitInputs(tables, inputs) ==
    /\ d = InitDev
    /\ gpu = [resources |-> {}, scanouts |-> NoScanouts,
              device_status |-> STATUS_ACKNOWLEDGED]
    /\ display \in tables
    /\ heap = {}
    /\ vga_screen = "boot"
    /\ known_modes = {}
    /\ trip = [live |-> FALSE, screen |-> "boot", regraphics |-> FALSE]
    /\ fb = <<>>
    /\ stray = {}
    /\ plotted = <<>>
    /\ draws = 0
    /\ input \in inputs
    /\ published = <<>>
    /\ errors = <<>>
    /\ op = [name |-> "init", arg |-> 0, cur_mode |-> 0]
    /\ ret = 0
    /\ out = [modes |-> <<>>, num |-> 0]
    /\ virtq = InitVirtq
    /\ kernel = InitKernel
    /\ parport = InitParport

InitWith(tables) == InitInputs(tables, {[kind |-> "none"]})

Init == InitWith({DisplayTable({1, 3})})

\* what set_mode publishes when every step of a switch to mode 1 succeeds
SetModePublished(width, height) ==
    LET r == Rect(0, 0, width, height)
        ok(req) == [req |-> req, resp |-> "RESP_OK_NODATA"]
    IN  << ok([ZeroReq EXCEPT !.type = "CMD_RESOURCE_CREATE_2D",
                              !.resource_id = SCREEN_RID,
                              !.format = VIRTIO_GPU_FORMAT_R8G8B8A8_UNORM,
                              !.width = width, !.height = height, !.nseg = 1]),
           ok([ZeroReq EXCEPT !.type = "CMD_RESOURCE_ATTACH_BACKING",
                              !.resource_id = SCREEN_RID, !.nr_entries = 1,
                              !.addr = 1, !.length = width * height * PIXEL_SIZE,
                              !.nseg = 2]),
           ok([ZeroReq EXCEPT !.type = "CMD_SET_SCANOUT",
                              !.resource_id = SCREEN_RID, !.r = r, !.nseg = 1]),
           ok([ZeroReq EXCEPT !.type = "CMD_TRANSFER_TO_HOST_2D",
                              !.resource_id = SCREEN_RID, !.r = r, !.nseg = 1]),
           ok([ZeroReq EXCEPT !.type = "CMD_RESOURCE_FLUSH",
                              !.resource_id = SCREEN_RID, !.r = r, !.nseg = 1]) >>

\* The driver in graphics mode 1 with a zeroed width x height frame: the
\* state after get_available_modes and then set_mode(1) have succeeded on
\* a display whose scanout 0 is width x height
InitGraphics(width, height, inputs) ==
    LET r == Rect(0, 0, width, height)
        fb_length == width * height * PIXEL_SIZE
    IN  /\ d = [have_disp_info |-> TRUE,
                disp_info_resp |-> [type |-> "RESP_OK_DISPLAY_INFO",
                                    pmodes |-> FrameTable(width, height)],
                cur_mode |-> 1, frame_buffer |-> 1, frame_box |-> r,
                clipping_box |-> r, cursor_buffer |-> 2,
                cursor_box |-> Rect(0, 0, 64, 64), text_snapshot |-> "boot"]
        /\ gpu = [resources |-> {[id |-> SCREEN_RID,
                                  format |-> VIRTIO_GPU_FORMAT_R8G8B8A8_UNORM,
                                  width |-> width, height |-> height,
                                  backing |-> <<[addr |-> 1, length |-> fb_length]>>,
                                  content |-> ZeroFb(width * height)]},
                  scanouts |-> [i \in ScanoutIds |-> IF i = 0 THEN SCREEN_RID ELSE 0],
                  device_status |-> STATUS_ACKNOWLEDGED]
        /\ display = FrameTable(width, height)
        /\ heap = {[addr |-> 1, len |-> fb_length],
                   [addr |-> 2, len |-> CURSOR_FB_LENGTH]}
        /\ vga_screen = "boot"
        /\ known_modes = {0, 1}
        /\ trip = [live |-> TRUE, screen |-> "boot", regraphics |-> FALSE]
        /\ fb = ZeroFb(width * height)
        /\ stray = {}
        /\ plotted = <<>>
        /\ draws = 0
        /\ input \in inputs
        /\ published = SetModePublished(width, height)
        /\ errors = <<>>
        /\ op = [name |-> "set_mode", arg |-> 1, cur_mode |-> 0]
        /\ ret = 0
        /\ out = [modes |-> <<>>, num |-> 0]
        /\ virtq = InitVirtq
        /\ kernel = InitKernel
        /\ parport = InitParport

\* the state an operation starts from: it has published and reported nothing
Entry ==
    [d |-> d, gpu |-> gpu, heap |-> heap, vga |-> vga_screen,
     fb |-> fb, stray |-> stray, plotted |-> <<>>, draws |-> draws,
     pub |-> <<>>, err |-> <<>>, steps |-> <<>>]

Return(name, arg, r) ==
    /\ d' = r.s.d
    /\ gpu' = r.s.gpu
    /\ display' = display
    /\ heap' = r.s.heap
    /\ vga_screen' = r.s.vga
    /\ fb' = r.s.fb
    /\ stray' = r.s.stray
    /\ plotted' = r.s.plotted
    /\ draws' = r.s.draws
    /\ input' = input
    /\ published' = r.s.pub
    /\ errors' = r.s.err
    /\ op' = [name |-> name, arg |-> arg, cur_mode |-> d.cur_mode]
    /\ ret' = r.rc
    /\ virtq' = virtq
    /\ kernel' = kernel
    /\ parport' = parport

---------------------------------------------------------------------------
(* set_mode, from its last step to its first.  Each step is the rest of    *)
(* the call from there on: it ends in Return, with the state and the       *)
(* return value of the call.                                               *)

\* the scanout that mode mode_num shows: &d->disp_info_resp.pmodes[mode_num-1]
ModeScanout(dd, mode_num) == dd.disp_info_resp.pmodes[mode_num - 1]

\* fb_length = pm->r.width * pm->r.height * sizeof(nk_gpu_dev_pixel_t)
FbLength(pm) == pm.r.width * pm.r.height * PIXEL_SIZE

\* trip records, for a run of successful set_mode calls that leaves text
\* mode, what was on the text screen when it left, and whether the run
\* went from a graphics mode to a graphics mode
SetModeReturn(mode_num, r) ==
    /\ Return("set_mode", mode_num, r)
    /\ out' = [modes |-> <<>>, num |-> 0]
    /\ known_modes' = known_modes
    /\ trip' = IF r.rc # 0 \/ mode_num = 0
                   THEN [trip EXCEPT !.live = FALSE]
               ELSE IF d.cur_mode = 0
                   THEN [live |-> TRUE, screen |-> vga_screen,
                         regraphics |-> FALSE]
               ELSE [trip EXCEPT !.regraphics = trip.live]

\* the cursor framebuffer; when it cannot be allocated, reset(d) and -1
set_mode_cursor(s, mode_num) ==
    \E m \in malloc(s.heap, CURSOR_FB_LENGTH) :
        LET s1 == [s EXCEPT !.heap = m.heap, !.d.cursor_buffer = m.ptr]
        IN  IF m.ptr = NULL
                THEN \E rr \in reset(Fail(s1, "failed to allocate cursor framebuffer").s) :
                        SetModeReturn(mode_num, Result(rr.s, -1))
                ELSE SetModeReturn(mode_num,
                        Result([s1 EXCEPT !.d.cursor_box = Rect(0, 0, 64, 64)], 0))

\* d->cur_mode = mode_num; flush(d); its return value is not looked at
set_mode_flush(s, mode_num) ==
    \E f \in flush([s EXCEPT !.d.cur_mode = mode_num]) :
        set_mode_cursor(f.s, mode_num)

\* SET_SCANOUT of the screen resource on scanout mode_num-1
set_mode_scanout(s, mode_num) ==
    LET pm == ModeScanout(s.d, mode_num)
        req == [ZeroReq EXCEPT !.type = "CMD_SET_SCANOUT",
                               !.resource_id = SCREEN_RID,
                               !.r = pm.r,
                               !.scanout_id = mode_num - 1]
    IN  \E t \in transact_rw(s, req) :
            IF Failed(t, "RESP_OK_NODATA")
                THEN SetModeReturn(mode_num,
                        Fail(t.s, "failed to associate screen resource with the scanout"))
                ELSE set_mode_flush(t.s, mode_num)

\* RESOURCE_ATTACH_BACKING of the framebuffer, one entry in a segment of its own
set_mode_backing(s, mode_num) ==
    LET pm == ModeScanout(s.d, mode_num)
        req == [ZeroReq EXCEPT !.type = "CMD_RESOURCE_ATTACH_BACKING",
                               !.resource_id = SCREEN_RID,
                               !.nr_entries = 1,
                               !.addr = s.d.frame_buffer,
                               !.length = FbLength(pm)]
    IN  \E t \in transact_rrw(s, req) :
            IF Failed(t, "RESP_OK_NODATA")
                THEN SetModeReturn(mode_num,
                        Fail(t.s, "failed to associate framebuffer with screen resource"))
                ELSE set_mode_scanout(t.s, mode_num)

\* the framebuffer, its bounding box and the clipping box
set_mode_framebuffer(s, mode_num) ==
    LET pm == ModeScanout(s.d, mode_num)
    IN  \E m \in malloc(s.heap, FbLength(pm)) :
            LET s1 == [s EXCEPT !.heap = m.heap, !.d.frame_buffer = m.ptr,
                                !.fb = <<>>]
            IN  IF m.ptr = NULL
                    THEN SetModeReturn(mode_num, Fail(s1, "failed to allocate framebuffer"))
                    ELSE set_mode_backing(
                             [s1 EXCEPT
                                 !.d.frame_box = Rect(0, 0, pm.r.width, pm.r.height),
                                 !.d.clipping_box = Rect(0, 0, pm.r.width, pm.r.height),
                                 !.fb = ZeroFb(pm.r.width * pm.r.height)],
                             mode_num)

\* RESOURCE_CREATE_2D of the screen resource
set_mode_create(s, mode_num) ==
    LET pm == ModeScanout(s.d, mode_num)
        req == [ZeroReq EXCEPT !.type = "CMD_RESOURCE_CREATE_2D",
                               !.resource_id = SCREEN_RID,
                               !.format = VIRTIO_GPU_FORMAT_R8G8B8A8_UNORM,
                               !.width = pm.r.width,
                               !.height = pm.r.height]
    IN  \E t \in transact_rw(s, req) :
            IF Failed(t, "RESP_OK_NODATA")
                THEN SetModeReturn(mode_num, Fail(t.s, "failed to create 2D screen"))
                ELSE set_mode_framebuffer(t.s, mode_num)

\* vga_copy_out(d->text_snapshot, 80*25*2)
vga_copy_out(s) == [s EXCEPT !.d.text_snapshot = s.vga]

\* vga_copy_in(d->text_snapshot, 80*25*2)
vga_copy_in(s) == [s EXCEPT !.vga = s.d.text_snapshot]

\* Faulty variants of set_mode, which the properties of the text screen
\* must tell from it.

\* the cursor buffer is set up on the way to text mode too
set_mode_cursor_always(s, mode_num) ==
    \E rr \in reset(IF s.d.cur_mode = 0 THEN vga_copy_out(s) ELSE s) :
        IF rr.rc # 0
            THEN SetModeReturn(mode_num, Fail(rr.s, "Cannot reset device"))
        ELSE IF mode_num = 0
            THEN set_mode_cursor(vga_copy_in(rr.s), mode_num)
        ELSE set_mode_create(rr.s, mode_num)

\* the text screen is captured on every call
set_mode_resnapshot(s, mode_num) ==
    \E rr \in reset(vga_copy_out(s)) :
        IF rr.rc # 0
            THEN SetModeReturn(mode_num, Fail(rr.s, "Cannot reset device"))
        ELSE IF mode_num = 0
            THEN SetModeReturn(mode_num, Result(vga_copy_in(rr.s), 0))
        ELSE set_mode_create(rr.s, mode_num)

set_mode(s, mode_num) ==
    \E rr \in reset(IF s.d.cur_mode = 0 THEN vga_copy_out(s) ELSE s) :
        IF rr.rc # 0
            THEN SetModeReturn(mode_num, Fail(rr.s, "Cannot reset device"))
        ELSE IF mode_num = 0
            THEN SetModeReturn(mode_num, Result(vga_copy_in(rr.s), 0))
        ELSE set_mode_create(rr.s, mode_num)

---------------------------------------------------------------------------
(* The public operations as actions *)

GetAvailableModesOf(nums) ==
    \E num \in nums :
        \E r \in get_available_modes(Entry, num) :
            /\ Return("get_available_modes", num, r)
            /\ out' = [modes |-> r.modes, num |-> r.num]
            /\ known_modes' = known_modes \cup
                   {r.modes[i].mode_data : i \in 1..Len(r.modes)}
            /\ trip' = trip

GetMode ==
    /\ Return("get_mode", 0, Result(Entry, 0))
    /\ out' = [modes |-> <<get_mode(Entry)>>, num |-> 1]
    /\ known_modes' = known_modes \cup {get_mode(Entry).mode_data}
    /\ trip' = trip

\* the caller passes a descriptor it was given: set_mode reads its mode_data
SetMode == \E mode_num \in known_modes : set_mode(Entry, mode_num)

Flush ==
    \E r \in flush(Entry) :
        /\ Return("flush", 0, r)
        /\ out' = [modes |-> <<>>, num |-> 0]
        /\ known_modes' = known_modes
        /\ trip' = trip

GetAvailableModes == GetAvailableModesOf(0..MaxNum)

Next ==
    \/ GetAvailableModes
    \/ GetMode
    \/ SetMode
    \/ Flush

Spec == Init /\ [][Next]_vars

(* The mode manager with a text console that writes the text screen *)

\* what the text screen may show
Screens == {"boot", "typed"}

\* the console writes the VGA text memory
TextWrite ==
    /\ \E screen \in Screens \ {vga_screen} : vga_screen' = screen
    /\ op' = [name |-> "text_write", arg |-> 0, cur_mode |-> d.cur_mode]
    /\ ret' = 0
    /\ published' = <<>>
    /\ errors' = <<>>
    /\ plotted' = <<>>
    /\ UNCHANGED <<d, gpu, display, heap, known_modes, trip, fb, stray,
                   draws, input, out, virtq, kernel, parport>>

NextScreen ==
    \/ Next
    \/ TextWrite

SpecScreen == Init /\ [][NextScreen]_vars

(* The mode manager with a caller that sets the clipping box *)

\* the box is null, or lies within the smallest frame, or reaches beyond
\* every frame
ClipBoxes ==
    {NullPtr, PtrTo(Rect(1, 1, 2, 2)),
     PtrTo(Rect(3, 2, VIRTIO_GPU_MAX_SCANOUTS + 4, VIRTIO_GPU_MAX_SCANOUTS + 3))}

GraphicsSetClippingBoxOf(boxes) ==
    \E box \in boxes :
        /\ Return("graphics_set_clipping_box", box,
                  Result(graphics_set_clipping_box(Entry, box), 0))
        /\ UNCHANGED <<known_modes, trip, out>>

GraphicsSetClippingBox == GraphicsSetClippingBoxOf(ClipBoxes)

NextClip ==
    \/ Next
    \/ GraphicsSetClippingBox

SpecClip == Init /\ [][NextClip]_vars

(* The blit step and the saturating helpers, applied to chosen arguments *)

\* every pair of bytes
ByteInputs == {[kind |-> "bytes", a |-> a, b |-> b] : a, b \in Byte}

PixelSamples ==
    {<<0, 0, 0, 0>>, <<255, 255, 255, 255>>, <<200, 100, 0, 255>>,
     <<100, 0, 0, 0>>, <<1, 2, 4, 128>>, <<15, 240, 85, 170>>}

\* pairs of pixels under every blit op and under a value that is none
BlitInputs ==
    {[kind |-> "pixels", oldpixel |-> o, newpixel |-> n, blit_op |-> b] :
        o \in PixelSamples, n \in PixelSamples, b \in BlitOps \cup {"OTHER"}}

InitBlit == InitInputs({DisplayTable({1, 3})}, ByteInputs \cup BlitInputs)

\* an operation that only computes: name, and what it hands back
Computed(name, result) ==
    /\ op.name = "init"
    /\ op' = [name |-> name, arg |-> 0, cur_mode |-> d.cur_mode]
    /\ ret' = 0
    /\ out' = result
    /\ UNCHANGED <<d, gpu, display, heap, vga_screen, known_modes, trip, fb,
                   stray, plotted, draws, input, published, errors, virtq,
                   kernel, parport>>

Saturating ==
    /\ input.kind = "bytes"
    /\ Computed("saturating",
                [add |-> saturating_add8(input.a, input.b),
                 sub |-> saturating_sub8(input.a, input.b),
                 mul |-> saturating_mul8(input.a, input.b),
                 div |-> saturating_div8(input.a, input.b)])

ApplyWithBlit ==
    /\ input.kind = "pixels"
    /\ Computed("apply_with_blit",
                [pixel |-> apply_with_blit(input.oldpixel, input.newpixel,
                                           input.blit_op)])

NextBlit ==
    \/ Saturating
    \/ ApplyWithBlit

SpecBlit == InitBlit /\ [][NextBlit]_vars

(* One line drawn onto a fresh square frame *)

\* side of the frame
LineSide == 6

\* every point of a frame of that width and height
FramePoints(width, height) ==
    {Coord(x, y) : x \in 0..(width - 1), y \in 0..(height - 1)}

WhitePixel == <<255, 255, 255, 255>>

GraphicsDrawLineOf(points, pixels) ==
    \E start \in points, end \in points, pixel \in pixels :
        /\ Return("graphics_draw_line",
                  [start |-> start, end |-> end, pixel |-> pixel],
                  Result(graphics_draw_line([Entry EXCEPT !.draws = @ + 1],
                                            start, end, pixel), 0))
        /\ UNCHANGED <<known_modes, trip, out>>

InitLine == InitGraphics(LineSide, LineSide, {[kind |-> "none"]})

\* the first drawing call on the frame is a line between two of its points
DrawFirstLine ==
    /\ draws = 0
    /\ GraphicsDrawLineOf(FramePoints(LineSide, LineSide), {WhitePixel})

SpecLine == InitLine /\ [][DrawFirstLine]_vars

(* One polygon drawn onto a fresh square frame *)

\* side of the frame, and the most points of a polygon that is not a rectangle
PolySide == 4
MaxPoints == 2

\* the four corners of every rectangle of the frame, in drawing order
RectangleCorners(side) ==
    {<<Coord(x0, y0), Coord(x1, y0), Coord(x1, y1), Coord(x0, y1)>> :
        x0 \in 0..(side - 1), y0 \in 0..(side - 1),
        x1 \in 0..(side - 1), y1 \in 0..(side - 1)}

\* point lists of up to MaxPoints points of the frame, and the rectangles
PolyLists(side) ==
    UNION {[1..n -> FramePoints(side, side)] : n \in 0..MaxPoints}
        \cup RectangleCorners(side)

GraphicsDrawPolyOf(lists, pixels) ==
    \E coord_list \in lists, pixel \in pixels :
        /\ Return("graphics_draw_poly",
                  [coord_list |-> coord_list, count |-> Len(coord_list),
                   pixel |-> pixel],
                  Result(graphics_draw_poly([Entry EXCEPT !.draws = @ + 1],
                                            coord_list, Len(coord_list), pixel), 0))
        /\ UNCHANGED <<known_modes, trip, out>>

InitPoly == InitGraphics(PolySide, PolySide, {[kind |-> "none"]})

\* the first drawing call on the frame is a polygon
DrawFirstPoly ==
    /\ draws = 0
    /\ GraphicsDrawPolyOf(PolyLists(PolySide), {WhitePixel})

SpecPoly == InitPoly /\ [][DrawFirstPoly]_vars

(* Drawing calls on a small frame, with the clipping box set in between *)

\* width and height of the frame, and the number of drawing calls made
DrawWidth == 3
DrawHeight == 2
MaxDraws == 1

\* the whole frame, one pixel of it, a box one column wider than the frame's
\* part to the right of column 0, and the frame with the column to its right
DrawClips ==
    {NullPtr, PtrTo(Rect(1, 0, 1, 1)), PtrTo(Rect(1, 0, DrawWidth, 1)),
     PtrTo(Rect(0, 0, DrawWidth + 1, DrawHeight))}

\* locations of the frame and of the column to its right
DrawPoints == FramePoints(DrawWidth + 1, DrawHeight)

GreyPixel == <<100, 100, 100, 100>>

\* the last two boxes reach one column beyond the frame
DrawBoxes ==
    {Rect(0, 0, DrawWidth, DrawHeight), Rect(1, 0, 2, 1), Rect(0, 1, 1, 1),
     Rect(DrawWidth - 1, 0, 2, 1), Rect(0, 0, DrawWidth + 1, DrawHeight)}

GraphicsDrawPixelOf(points, pixels) ==
    \E location \in points, pixel \in pixels :
        /\ Return("graphics_draw_pixel", [location |-> location, pixel |-> pixel],
                  Result(graphics_draw_pixel([Entry EXCEPT !.draws = @ + 1],
                                             location, pixel), 0))
        /\ UNCHANGED <<known_modes, trip, out>>

GraphicsFillBoxWithPixelOf(boxes, pixels, ops) ==
    \E box \in boxes, pixel \in pixels, blit_op \in ops :
        /\ Return("graphics_fill_box_with_pixel",
                  [box |-> box, pixel |-> pixel, blit_op |-> blit_op],
                  Result(graphics_fill_box_with_pixel([Entry EXCEPT !.draws = @ + 1],
                                                      box, pixel, blit_op), 0))
        /\ UNCHANGED <<known_modes, trip, out>>

InitDraw == InitGraphics(DrawWidth, DrawHeight, {[kind |-> "none"]})

SetClip == GraphicsSetClippingBoxOf(DrawClips)

DrawPixel ==
    /\ draws < MaxDraws
    /\ GraphicsDrawPixelOf(DrawPoints, {WhitePixel, GreyPixel})

DrawLine ==
    /\ draws < MaxDraws
    /\ GraphicsDrawLineOf(FramePoints(DrawWidth, DrawHeight), {WhitePixel})

FillBoxWithPixel ==
    /\ draws < MaxDraws
    /\ GraphicsFillBoxWithPixelOf(DrawBoxes, {WhitePixel, GreyPixel},
                                  BlitOps \cup {"OTHER"})

RedPixel == <<255, 0, 0, 255>>
BluePixel == <<0, 0, 255, 255>>

\* bitmaps narrower, lower and smaller both ways than the boxes they fill
DrawBitmaps ==
    {Bitmap(2, 1, <<WhitePixel, GreyPixel>>),
     Bitmap(1, 2, <<RedPixel, BluePixel>>),
     Bitmap(2, 2, <<WhitePixel, GreyPixel, RedPixel, BluePixel>>)}

GraphicsFillBoxWithBitmapOf(boxes, bitmaps, ops) ==
    \E box \in boxes, bitmap \in bitmaps, blit_op \in ops :
        /\ Return("graphics_fill_box_with_bitmap",
                  [box |-> box, bitmap |-> bitmap, blit_op |-> blit_op],
                  Result(graphics_fill_box_with_bitmap([Entry EXCEPT !.draws = @ + 1],
                                                       box, bitmap, blit_op), 0))
        /\ UNCHANGED <<known_modes, trip, out>>

FillBoxWithBitmap ==
    /\ draws < MaxDraws
    /\ GraphicsFillBoxWithBitmapOf(DrawBoxes, DrawBitmaps, BlitOps \cup {"OTHER"})

\* source boxes of the frame: one pixel, part of a row, a block
DrawSources == {Rect(0, 0, 1, 1), Rect(0, 1, 2, 1), Rect(1, 0, 2, 2)}

GraphicsCopyBoxOf(sources, dests, ops, beyonds) ==
    \E source_box \in sources, dest_box \in dests, blit_op \in ops,
       beyond \in beyonds :
        /\ Return("graphics_copy_box",
                  [source_box |-> source_box, dest_box |-> dest_box,
                   blit_op |-> blit_op],
                  Result(graphics_copy_box([Entry EXCEPT !.draws = @ + 1],
                                           source_box, dest_box, blit_op, beyond), 0))
        /\ UNCHANGED <<known_modes, trip, out>>

CopyBox ==
    /\ draws < MaxDraws
    /\ GraphicsCopyBoxOf(DrawSources, DrawBoxes, BlitOps \cup {"OTHER"},
                         {ZeroPixel, WhitePixel})

DrawPoly ==
    /\ draws < MaxDraws
    /\ GraphicsDrawPolyOf(
           UNION {[1..n -> FramePoints(DrawWidth, DrawHeight)] : n \in 0..MaxPoints},
           {WhitePixel})

NextDraw ==
    \/ SetClip
    \/ DrawPixel
    \/ DrawLine
    \/ DrawPoly
    \/ FillBoxWithPixel
    \/ FillBoxWithBitmap
    \/ CopyBox

SpecDraw == InitDraw /\ [][NextDraw]_vars

(* A box copied within a frame that a bitmap was painted on *)

\* the first drawing call tiles the whole frame with a bitmap
PaintFrame ==
    /\ draws = 0
    /\ GraphicsFillBoxWithBitmapOf({Rect(0, 0, DrawWidth, DrawHeight)}, DrawBitmaps,
                                   {"COPY"})

\* the second one copies a box
CopyPainted ==
    /\ draws = 1
    /\ GraphicsCopyBoxOf(DrawSources, DrawBoxes, BlitOps \cup {"OTHER"},
                         {ZeroPixel, WhitePixel})

NextCopy ==
    \/ SetClip
    \/ PaintFrame
    \/ CopyPainted

SpecCopy == InitDraw /\ [][NextCopy]_vars

(* Drawing and flushing: one drawing call, the clipping box set and the    *)
(* frame flushed at any time                                               *)

\* the first drawing call on the frame, any of the six
DrawOnce ==
    /\ draws = 0
    /\ \/ GraphicsDrawPixelOf(DrawPoints, {WhitePixel, GreyPixel})
       \/ GraphicsDrawLineOf(FramePoints(DrawWidth, DrawHeight), {WhitePixel})
       \/ GraphicsDrawPolyOf(
              UNION {[1..n -> FramePoints(DrawWidth, DrawHeight)] : n \in 0..MaxPoints},
              {WhitePixel})
       \/ GraphicsFillBoxWithPixelOf(DrawBoxes, {WhitePixel, GreyPixel},
                                     BlitOps \cup {"OTHER"})
       \/ GraphicsFillBoxWithBitmapOf(DrawBoxes, DrawBitmaps, BlitOps \cup {"OTHER"})
       \/ GraphicsCopyBoxOf(DrawSources, DrawBoxes, BlitOps \cup {"OTHER"},
                            {ZeroPixel, WhitePixel})

NextFlushed ==
    \/ SetClip
    \/ DrawOnce
    \/ Flush

SpecFlushed == InitDraw /\ [][NextFlushed]_vars

(* Transactions on virtqueue 0 followed statement by statement, with the   *)
(* device taking a published chain at any time                              *)

\* a command with one request segment and one with a second one
TransactRequests ==
    {[ZeroReq EXCEPT !.type = "CMD_RESOURCE_CREATE_2D",
                     !.resource_id = SCREEN_RID,
                     !.format = VIRTIO_GPU_FORMAT_R8G8B8A8_UNORM,
                     !.width = 1, !.height = 1]}

TransactMore ==
    {[ZeroReq EXCEPT !.type = "CMD_RESOURCE_ATTACH_BACKING",
                     !.resource_id = SCREEN_RID, !.nr_entries = 1,
                     !.addr = 1, !.length = PIXEL_SIZE]}

\* a call of transact_rw or transact_rrw up to the check of the allocation
TransactOf(name, reqs, count) ==
    /\ virtq.pc = "idle"
    /\ virtq.calls < MaxCalls
    /\ \E req \in reqs, chain \in {<<>>} \cup FreeChains(virtq, count) :
        /\ virtq' = transact_entry(virtq, [req EXCEPT !.nseg = count - 1],
                                   count, chain)
        /\ errors' = IF chain = <<>>
                        THEN <<"Failed to allocate descriptor chain">>
                        ELSE <<>>
    /\ op' = [name |-> name, arg |-> 0, cur_mode |-> d.cur_mode]
    /\ ret' = IF virtq'.pc = "idle" THEN virtq'.rc ELSE ret
    /\ published' = <<>>
    /\ UNCHANGED <<d, gpu, display, heap, vga_screen, known_modes, trip, fb,
                   stray, plotted, draws, input, out, kernel, parport>>

TransactRw == TransactOf("transact_rw", TransactRequests, 2)

TransactRrw == TransactOf("transact_rrw", TransactMore, 3)

\* the next statement of the transaction; at the return the chain and the
\* response type it found are what the call published
TransactStep ==
    /\ virtq.pc # "idle"
    /\ virtq' = transact_step(virtq)
    /\ ret' = IF virtq'.pc = "idle" THEN virtq'.rc ELSE ret
    /\ published' = IF virtq'.pc = "idle"
                        THEN <<[req |-> virtq.req, resp |-> virtq.resp]>>
                        ELSE published
    /\ UNCHANGED <<d, gpu, display, heap, vga_screen, known_modes, trip, fb,
                   stray, plotted, draws, input, errors, op, out, kernel, parport>>

\* The device sees an avail index it has not caught up with: it takes the
\* chain of the next ring entry, runs the command of a chain made of request
\* segments and one writable response, writes the response and advances the
\* used index.  It leaves a chain of any other shape unanswered.
DeviceStep ==
    /\ virtq.avail.idx # virtq.used.idx
    /\ LET t == DevTake(virtq)
           sound == Len(t.segs) >= 2 /\ t.segs = Segments(Len(t.segs))
           mem == GuestMemory([d |-> d, fb |-> fb])
       IN  \E c \in (IF sound THEN DevComplete(gpu, virtq.req, mem)
                              ELSE {[gpu |-> gpu, type |-> "ZERO"]}) :
               /\ gpu' = c.gpu
               /\ virtq' = [virtq EXCEPT
                                !.used.idx = (@ + 1) % UINT16_MOD,
                                !.resp = c.type,
                                !.taken = Append(@, [head |-> t.head,
                                                     segs |-> t.segs,
                                                     req |-> virtq.req])]
    /\ UNCHANGED <<d, display, heap, vga_screen, known_modes, trip, fb, stray,
                   plotted, draws, input, published, errors, op, ret, out,
                   kernel, parport>>

NextTransact ==
    \/ TransactRw
    \/ TransactRrw
    \/ TransactStep
    \/ DeviceStep

SpecTransact == Init /\ [][NextTransact]_vars

(* Transactions with a driver that runs and a device that serves every     *)
(* chain in the end, begun at avail index 0 and just below the wraparound  *)
(* of the 16-bit indexes                                                    *)

\* virtqueue 0 after n transactions of transact_rw that each got the chain
\* <<0, 1>> and returned; issued and taken start afresh
VirtqAfter(n) ==
    IF n = 0 THEN InitVirtq
    ELSE LET desc == [i \in DescIds |->
                        IF i = 0 THEN [addr |-> "req", len |-> "req",
                                       flags |-> VIRTQ_DESC_F_NEXT, next |-> 1]
                        ELSE IF i = 1 THEN [addr |-> "resp", len |-> "resp",
                                            flags |-> VIRTQ_DESC_F_WRITE,
                                            next |-> 0]
                        ELSE ZeroDesc]
             ring == [i \in DescIds |-> 0]
         IN  [InitVirtq EXCEPT
                 !.desc = desc,
                 !.avail = [idx |-> n % UINT16_MOD, ring |-> ring],
                 !.used = [idx |-> n % UINT16_MOD],
                 !.nseg = 2, !.desc_idx = <<0, 1>>,
                 !.waitidx = n % UINT16_MOD,
                 !.req = [ZeroReq EXCEPT !.type = "CMD_GET_DISPLAY_INFO"],
                 !.resp = "RESP_OK_DISPLAY_INFO",
                 !.log = <<"desc", "desc", "ring", "idx", "queue_select",
                           "queue_enable", "notify", "free">>,
                 !.entry = [desc |-> desc, free |-> DescIds,
                            avail |-> [idx |-> (n - 1) % UINT16_MOD,
                                       ring |-> ring]]]

\* the numbers of earlier transactions the behaviours begin after
WrapStarts == {0, UINT16_MOD - 1}

MaxFairCalls == 1   \* SpecTransactFair follows at most MaxFairCalls transactions

InitTransactFair ==
    /\ d = InitDev
    /\ gpu = [resources |-> {}, scanouts |-> NoScanouts,
              device_status |-> STATUS_ACKNOWLEDGED]
    /\ display = DisplayTable({1, 3})
    /\ heap = {}
    /\ vga_screen = "boot"
    /\ known_modes = {}
    /\ trip = [live |-> FALSE, screen |-> "boot", regraphics |-> FALSE]
    /\ fb = <<>>
    /\ stray = {}
    /\ plotted = <<>>
    /\ draws = 0
    /\ input = [kind |-> "none"]
    /\ published = <<>>
    /\ errors = <<>>
    /\ op = [name |-> "init", arg |-> 0, cur_mode |-> 0]
    /\ ret = 0
    /\ out = [modes |-> <<>>, num |-> 0]
    /\ \E n \in WrapStarts : virtq = VirtqAfter(n)
    /\ kernel = InitKernel
    /\ parport = InitParport

\* the control path runs on, and the device serves a chain it was given
NextTransactFair ==
    \/ virtq.calls < MaxFairCalls /\ TransactRw
    \/ virtq.calls < MaxFairCalls /\ TransactRrw
    \/ TransactStep
    \/ DeviceStep

SpecTransactFair ==
    /\ InitTransactFair
    /\ [][NextTransactFair]_vars
    /\ WF_vars(TransactStep)
    /\ WF_vars(DeviceStep)

(* virtio_gpu_init called for one device after another, any step failing *)

\* the machine before virtio_gpu_init was called for any device
InitBoot ==
    /\ d = InitDev
    /\ gpu = [resources |-> {}, scanouts |-> NoScanouts, device_status |-> 0]
    /\ display = DisplayTable({1, 3})
    /\ heap = {}
    /\ vga_screen = "boot"
    /\ known_modes = {}
    /\ trip = [live |-> FALSE, screen |-> "boot", regraphics |-> FALSE]
    /\ fb = <<>>
    /\ stray = {}
    /\ plotted = <<>>
    /\ draws = 0
    /\ input = [kind |-> "init", next |-> 0]
    /\ published = <<>>
    /\ errors = <<>>
    /\ op = [name |-> "boot", arg |-> 0, cur_mode |-> 0]
    /\ ret = 0
    /\ out = [modes |-> <<>>, num |-> 0]
    /\ virtq = InitVirtq
    /\ kernel = BootKernel
    /\ parport = InitParport

\* the framework calls virtio_gpu_init for the next virtio device it found;
\* the device uses MSI-X or not, has some MSI-X table size, and one step
\* of the call fails or none does
VirtioGpuInit ==
    /\ input.next < MaxDevices
    /\ \E itype \in {"MSI_X", "legacy"},
          size \in 0 .. MaxVectors,
          step \in InitSteps \cup {"none"},
          i \in 0 .. (MaxVectors - 1) :
        LET v == [id |-> input.next, itype |-> itype, msix_size |-> size]
            r == virtio_gpu_init(kernel, v, [step |-> step, i |-> i])
        IN  /\ kernel' = r.k
            /\ gpu' = IF v.id = 0 /\ <<0, "ack_device">> \in r.k.done
                         THEN DevStatusStore(gpu, STATUS_ACKNOWLEDGED)
                         ELSE gpu
            /\ errors' = r.err
            /\ ret' = r.rc
            /\ op' = [name |-> "virtio_gpu_init",
                      arg |-> [v |-> v, step |-> step, i |-> i],
                      cur_mode |-> d.cur_mode]
    /\ input' = [input EXCEPT !.next = @ + 1]
    /\ published' = <<>>
    /\ UNCHANGED <<d, display, heap, vga_screen, known_modes, trip, fb, stray,
                   plotted, draws, out, virtq, parport>>

NextInit == VirtioGpuInit

SpecInit == InitBoot /\ [][NextInit]_vars

(* Mode discovery alone, over every display table and slot count *)

InitModes == InitWith(DisplayTables)

GetAvailableModesAll == GetAvailableModesOf(0..MaxSlots)

NextModes ==
    \/ GetAvailableModesAll
    \/ GetMode

SpecModes == InitModes /\ [][NextModes]_vars

---------------------------------------------------------------------------
(* Properties of the mode manager *)

\* the ERROR() messages of the forward steps of set_mode
ForwardStepErrors ==
    {"failed to create 2D screen", "failed to allocate framebuffer",
     "failed to associate framebuffer with screen resource",
     "failed to associate screen resource with the scanout"}

\* the ERROR() messages of the teardown steps of reset
TeardownStepErrors ==
    {"failed to detach screen framebuffer", "failed to unref screen resource"}

\* the ERROR() messages of flush
FlushStepErrors ==
    {"failed to tell GPU to DMA from framebuffer",
     "failed to tell GPU to copy from resource to screen"}

\* driver and device agree: in S_k the device holds the one resource
\* SCREEN_RID, backed by the one entry of the framebuffer and shown on
\* scanout k-1; in S0 it holds no resource
Consistent ==
    IF d.cur_mode > 0
        THEN /\ \A res \in gpu.resources : res.id = SCREEN_RID
             /\ Cardinality(gpu.resources) = 1
             /\ Len(Resource(gpu, SCREEN_RID).backing) = 1
             /\ Resource(gpu, SCREEN_RID).backing[1].addr = d.frame_buffer
             /\ gpu.scanouts[d.cur_mode - 1] = SCREEN_RID
        ELSE gpu.resources = {}

\* C1: when a forward step of set_mode to a graphics mode fails (CREATE_2D,
\* the framebuffer allocation, ATTACH_BACKING or SET_SCANOUT), set_mode
\* returns -1 with cur_mode = 0, frame_buffer null and no SCREEN_RID
\* resource left on the device.
C1_ForwardFailureUnwinds ==
    (op.name = "set_mode" /\ errors # <<>> /\ errors[1] \in ForwardStepErrors)
        => /\ ret = -1
           /\ d.cur_mode = 0
           /\ d.frame_buffer = NULL
           /\ ~HasResource(gpu, SCREEN_RID)

\* C2: when set_mode is called in a graphics mode and a teardown step of
\* its reset fails (DETACH_BACKING or RESOURCE_UNREF), the driver is in S0
\* after the call, no framebuffer is left, and driver and device agree.
C2_TeardownFailureEndsInText ==
    (op.name = "set_mode" /\ op.cur_mode > 0
        /\ errors # <<>> /\ errors[1] \in TeardownStepErrors)
        => /\ d.cur_mode = 0
           /\ d.frame_buffer = NULL
           /\ Consistent

\* C3: when the flush that ends set_mode to a graphics mode fails, set_mode
\* does not return 0 and the driver is back in S0.
C3_FlushFailureFailsSetMode ==
    (op.name = "set_mode" /\ \E i \in 1..Len(errors) : errors[i] \in FlushStepErrors)
        => /\ ret # 0
           /\ d.cur_mode = 0

\* C4: between public operations, frame_buffer is non-null exactly when
\* cur_mode > 0.
C4_FramebufferIffGraphics ==
    (d.frame_buffer # NULL) <=> (d.cur_mode > 0)

\* C5: when set_mode(m) returns 0, cur_mode is m's token and get_mode
\* reports it; and either m is text and no framebuffer is allocated, or m is
\* graphics and the framebuffer is width*height*4 bytes of m's scanout with
\* frame_box = clipping_box = (0, 0, width, height).
C5_SetModeSuccess ==
    (op.name = "set_mode" /\ ret = 0)
        => /\ d.cur_mode = op.arg
           /\ get_mode(Entry).mode_data = op.arg
           /\ IF op.arg = 0
                  THEN d.frame_buffer = NULL
                  ELSE LET pm == d.disp_info_resp.pmodes[op.arg - 1]
                           box == Rect(0, 0, pm.r.width, pm.r.height)
                       IN  /\ d.frame_buffer # NULL
                           /\ AllocLen(heap, d.frame_buffer)
                                  = pm.r.width * pm.r.height * 4
                           /\ d.frame_box = box
                           /\ d.clipping_box = box

\* C6: between public operations driver and device agree: in S_k the device
\* holds exactly the resource SCREEN_RID with the framebuffer as its one
\* backing entry and scanout k-1 bound to it; in S0 it holds no resource.
C6_DriverDeviceConsistent == Consistent

---------------------------------------------------------------------------
(* Properties of flush *)

\* the request flush builds in mode k: the whole rectangle of scanout k-1 as
\* the device reports it, the screen resource, offset 0, one request segment
FlushRequest(type, k) ==
    [ZeroReq EXCEPT !.type = type, !.resource_id = SCREEN_RID,
                    !.r = display[k - 1].r, !.offset = 0, !.nseg = 1]

\* C7: a flush in graphics mode S_k publishes TRANSFER_TO_HOST_2D (offset 0)
\* and then RESOURCE_FLUSH, both for SCREEN_RID and the whole rectangle of
\* scanout k-1, and nothing else; RESOURCE_FLUSH is published only when
\* TRANSFER_TO_HOST_2D was answered OK; flush returns 0 only when both
\* were published and answered OK.
C7_FlushPublishesTransferThenFlush ==
    (op.name = "flush" /\ op.cur_mode > 0)
        => /\ Len(published) <= 2
           /\ Len(published) >= 1
                => published[1].req =
                       FlushRequest("CMD_TRANSFER_TO_HOST_2D", op.cur_mode)
           /\ Len(published) = 2
                => /\ published[1].resp = "RESP_OK_NODATA"
                   /\ published[2].req =
                          FlushRequest("CMD_RESOURCE_FLUSH", op.cur_mode)
           /\ ret = 0 => /\ Len(published) = 2
                         /\ published[2].resp = "RESP_OK_NODATA"

\* a flush in a graphics mode that published both commands and returned 0
C7_Witness ==
    /\ op.name = "flush" /\ op.cur_mode > 0 /\ ret = 0
    /\ Len(published) = 2
    /\ published[2].req.type = "CMD_RESOURCE_FLUSH"
    /\ published[2].req.r.width > 0

\* C8: flush in text mode returns 0, publishes nothing, reports nothing and
\* leaves the driver state, the device, the heap and the text screen as
\* they were.
C8_FlushInTextIsNoOp ==
    [][(op'.name = "flush" /\ d.cur_mode = 0)
          => /\ ret' = 0
             /\ published' = <<>>
             /\ errors' = <<>>
             /\ d' = d
             /\ gpu' = gpu
             /\ heap' = heap
             /\ vga_screen' = vga_screen]_vars

\* a flush that ran in text mode, after the driver had been in a graphics mode
C8_Witness ==
    /\ op.name = "flush" /\ op.cur_mode = 0 /\ ret = 0
    /\ d.cur_mode = 0 /\ d.have_disp_info /\ d.frame_box.width > 0

\* C9: a flush that fails returns -1 and rolls nothing back: the driver
\* state (cur_mode, frame_buffer, frame_box, clipping_box), the heap and
\* the device (resources, backing, scanout bindings) are as before the
\* call; and the flush after a failed flush starts over: what it publishes
\* is TRANSFER_TO_HOST_2D first and RESOURCE_FLUSH second, and it has
\* published both when it returns 0.
C9_FlushFailureKeepsState ==
    [][/\ (op'.name = "flush" /\ ret' # 0)
            => /\ ret' = -1
               /\ d' = d
               /\ heap' = heap
               /\ gpu' = gpu
       /\ (op.name = "flush" /\ ret # 0 /\ op'.name = "flush")
            => /\ Len(published') >= 1
                    => published'[1].req =
                           FlushRequest("CMD_TRANSFER_TO_HOST_2D", d.cur_mode)
               /\ Len(published') >= 2
                    => published'[2].req =
                           FlushRequest("CMD_RESOURCE_FLUSH", d.cur_mode)
               /\ ret' = 0 => Len(published') = 2]_vars

\* a flush in a graphics mode whose RESOURCE_FLUSH failed after its
\* TRANSFER_TO_HOST_2D was answered OK
C9_Witness ==
    /\ op.name = "flush" /\ op.cur_mode > 0 /\ ret = -1
    /\ Len(published) = 2
    /\ published[2].resp # "RESP_OK_NODATA"
    /\ d.cur_mode = op.cur_mode /\ d.frame_buffer # NULL
    /\ HasResource(gpu, SCREEN_RID)

---------------------------------------------------------------------------
(* Properties of mode discovery *)

\* the scanouts the device reports as enabled
EnabledScanouts == {i \in ScanoutIds : display[i].enabled # 0}

\* the j-th enabled scanout, in increasing index
NthEnabled(j) ==
    CHOOSE i \in EnabledScanouts :
        Cardinality({e \in EnabledScanouts : e < i}) = j - 1

Min(a, b) == IF a <= b THEN a ELSE b

\* C10: called with n >= 2 slots on a device with E enabled scanouts,
\* get_available_modes (its display-info query not failing) returns 0 with
\* the text mode 80x25, token 0, in slot 0, followed by the graphics modes
\* of the first min(E, n-1, 15) enabled scanouts in increasing index, each
\* with the width and height of its scanout and token index+1, and
\* *n = 1 + min(E, n-1, 15).
C10_ModesEnumerated ==
    (op.name = "get_available_modes" /\ op.arg >= 2 /\ errors = <<>>)
        => LET count == Min(Cardinality(EnabledScanouts),
                            Min(op.arg - 1, 15))
           IN  /\ ret = 0
               /\ out.num = 1 + count
               /\ Len(out.modes) = 1 + count
               /\ out.modes[1].type = "TEXT"
               /\ out.modes[1].width = 80 /\ out.modes[1].height = 25
               /\ out.modes[1].mode_data = 0
               /\ \A j \in 1..count :
                     LET i == NthEnabled(j)
                     IN  /\ out.modes[j + 1].type = "GRAPHICS_2D"
                         /\ out.modes[j + 1].width = display[i].r.width
                         /\ out.modes[j + 1].height = display[i].r.height
                         /\ out.modes[j + 1].mode_data = i + 1

\* the commands an operation published, by type
Published(type) ==
    {i \in 1..Len(published) : published[i].req.type = type}

\* C11: get_available_modes called with *num < 2 returns -1, publishes
\* nothing, writes no mode slot, leaves *num as it was, and leaves the
\* device state structure (the display-info cache with it) and the device
\* as they were.
C11_TooFewSlotsRejected ==
    [][(op'.name = "get_available_modes" /\ op'.arg < 2)
          => /\ ret' = -1
             /\ published' = <<>>
             /\ out'.modes = <<>>
             /\ out'.num = op'.arg
             /\ d' = d
             /\ gpu' = gpu]_vars

\* get_available_modes with one slot, refused while the cache is populated
C11_Witness ==
    /\ op.name = "get_available_modes" /\ op.arg = 1 /\ ret = -1
    /\ d.have_disp_info
    /\ errors = <<"Must provide at least two mode slots">>

\* C12: once have_disp_info is set, no operation publishes GET_DISPLAY_INFO
\* and the cached table and the flag stay as they are; while it is not set,
\* get_available_modes with enough slots issues GET_DISPLAY_INFO (it
\* publishes it, or fails for want of a descriptor chain), sets the flag
\* exactly when the answer is OK_DISPLAY_INFO, and fails when it is not.
C12_DisplayInfoFetchedOnce ==
    [][/\ d.have_disp_info
            => /\ d'.have_disp_info
               /\ d'.disp_info_resp = d.disp_info_resp
               /\ \A i \in 1..Len(published') :
                     published'[i].req.type # "CMD_GET_DISPLAY_INFO"
       /\ (~d.have_disp_info /\ op'.name = "get_available_modes" /\ op'.arg >= 2)
            => /\ \/ /\ Len(published') = 1
                     /\ published'[1].req =
                            [ZeroReq EXCEPT !.type = "CMD_GET_DISPLAY_INFO"]
                  \/ /\ published' = <<>>
                     /\ ret' = -1
               /\ d'.have_disp_info
                    <=> /\ Len(published') = 1
                        /\ published'[1].resp = "RESP_OK_DISPLAY_INFO"
               /\ d'.have_disp_info <=> ret' = 0
       /\ ~d.have_disp_info /\ op'.name # "get_available_modes"
            => ~d'.have_disp_info]_vars

\* a get_available_modes served from the cache after an earlier failed fetch
\* and a successful one: it publishes nothing
C12_Witness ==
    /\ op.name = "get_available_modes" /\ op.arg >= 2 /\ ret = 0
    /\ d.have_disp_info
    /\ published = <<>>
    /\ out.num >= 2

---------------------------------------------------------------------------
(* Properties of the text screen *)

\* C14: set_mode(text) called right after a set_mode(text) that returned 0
\* returns 0, publishes nothing and leaves the device state structure, the
\* text screen, the heap and the device as the first call left them.
C14_SetModeTextIdempotent ==
    [][(op.name = "set_mode" /\ op.arg = 0 /\ ret = 0
           /\ op'.name = "set_mode" /\ op'.arg = 0)
          => /\ ret' = 0
             /\ published' = <<>>
             /\ d' = d
             /\ vga_screen' = vga_screen
             /\ heap' = heap
             /\ gpu' = gpu]_vars

\* set_mode(text) has returned 0 in text mode, with the screen the console
\* wrote in the snapshot
C14_Witness ==
    /\ op.name = "set_mode" /\ op.arg = 0 /\ op.cur_mode = 0 /\ ret = 0
    /\ vga_screen = "typed" /\ d.text_snapshot = "typed"
    /\ d.have_disp_info

\* C15: over a run of successful set_mode calls text -> graphics -> ... ->
\* graphics -> text, the text screen after the last call is the text screen
\* as it was when the first call left text mode, whatever was written to
\* the text screen in between.
C15_TextScreenRoundTrip ==
    [][(op'.name = "set_mode" /\ op'.arg = 0 /\ ret' = 0 /\ trip.live)
          => vga_screen' = trip.screen]_vars

\* back in text mode at the end of a run that went from a graphics mode to
\* a graphics mode, showing what the console had written before the run
C15_Witness ==
    /\ op.name = "set_mode" /\ op.arg = 0 /\ op.cur_mode > 0 /\ ret = 0
    /\ d.cur_mode = 0
    /\ trip.regraphics
    /\ vga_screen = "typed" /\ trip.screen = "typed"

---------------------------------------------------------------------------
(* Properties of drawing *)

\* box a lies within box b
Contained(a, b) ==
    /\ a.x >= b.x /\ a.y >= b.y
    /\ a.x + a.width <= b.x + b.width
    /\ a.y + a.height <= b.y + b.height

\* C16: in a graphics mode, after any sequence of set_mode and
\* graphics_set_clipping_box calls, clipping_box lies within frame_box.
C16_ClippingBoxInFrame ==
    d.cur_mode > 0 => Contained(d.clipping_box, d.frame_box)

\* bit k (0..31) of the raw word of a pixel
RawBit(pixel, k) == (pixel[(k \div 8) + 1] \div (2 ^ (k % 8))) % 2

\* C18: for all bytes a and b the saturating helpers give min(255, a+b),
\* max(0, a-b), min(255, a*b), and 255 for b = 0 or the quotient a/b; and
\* the PLUS, MINUS, MULTIPLY and DIVIDE blit ops give, in each channel, the
\* helper's value for that channel of the two pixels.
C18_SaturatingArithmetic ==
    /\ op.name = "saturating"
         => /\ out.add = Min(255, input.a + input.b)
            /\ out.sub = (IF input.a >= input.b THEN input.a - input.b ELSE 0)
            /\ out.mul = Min(255, input.a * input.b)
            /\ out.div = (IF input.b = 0 THEN 255 ELSE input.a \div input.b)
    /\ op.name = "apply_with_blit"
         => \A i \in 1..4 :
              LET a == input.oldpixel[i]
                  b == input.newpixel[i]
              IN  /\ input.blit_op = "PLUS" => out.pixel[i] = Min(255, a + b)
                  /\ input.blit_op = "MINUS"
                       => out.pixel[i] = (IF a >= b THEN a - b ELSE 0)
                  /\ input.blit_op = "MULTIPLY" => out.pixel[i] = Min(255, a * b)
                  /\ input.blit_op = "DIVIDE"
                       => out.pixel[i] = (IF b = 0 THEN 255 ELSE a \div b)

\* PLUS saturates the first channel at 255 and carries nothing into the next
C18_Witness ==
    /\ op.name = "apply_with_blit" /\ input.blit_op = "PLUS"
    /\ input.oldpixel = <<200, 100, 0, 255>> /\ input.newpixel = <<100, 0, 0, 0>>
    /\ out.pixel = <<255, 100, 0, 255>>

\* C19: bit by bit on the 32-bit raw word, the blit step leaves the new
\* pixel for COPY and for a value that is no blit op, the inverted old
\* pixel for NOT, and old AND / OR / NAND / NOR / XOR / XNOR new for the
\* op of that name; NOT applied twice gives the old pixel back.
C19_BlitBitwise ==
    op.name = "apply_with_blit"
        => /\ \A k \in 0..31 :
                 LET o == RawBit(input.oldpixel, k)
                     n == RawBit(input.newpixel, k)
                     r == RawBit(out.pixel, k)
                     b == input.blit_op
                 IN  /\ b \in {"COPY", "OTHER"} => r = n
                     /\ b = "NOT" => r = 1 - o
                     /\ b = "AND" => r = o * n
                     /\ b = "OR" => r = (IF o + n > 0 THEN 1 ELSE 0)
                     /\ b = "NAND" => r = 1 - (o * n)
                     /\ b = "NOR" => r = (IF o + n > 0 THEN 0 ELSE 1)
                     /\ b = "XOR" => r = (o + n) % 2
                     /\ b = "XNOR" => r = 1 - ((o + n) % 2)
           /\ input.blit_op = "NOT"
                => apply_with_blit(out.pixel, input.newpixel, "NOT")
                       = input.oldpixel

\* a value outside the blit ops has copied a new pixel over a different one
C19_Witness ==
    /\ op.name = "apply_with_blit" /\ input.blit_op = "OTHER"
    /\ input.oldpixel = <<15, 240, 85, 170>> /\ input.newpixel = <<1, 2, 4, 128>>
    /\ out.pixel = <<1, 2, 4, 128>>

\* C20: a line between two points a and b of the frame is drawn to its end
\* (the call returns 0); it plots a first and b last, max(|dx|, |dy|) + 1
\* pixels in all, each next to the one before it (they differ, by at most 1
\* in x and in y), and every plotted pixel holds the colour in the frame.
C20_LineShape ==
    op.name = "graphics_draw_line"
        => LET a == op.arg.start
               b == op.arg.end
               ax == Abs(b.x - a.x)
               ay == Abs(b.y - a.y)
               n == (IF ax > ay THEN ax ELSE ay) + 1
           IN  /\ ret = 0
               /\ Len(plotted) = n
               /\ plotted[1] = a
               /\ plotted[n] = b
               /\ \A i \in 1..(n - 1) :
                     /\ plotted[i] # plotted[i + 1]
                     /\ Abs(plotted[i + 1].x - plotted[i].x) <= 1
                     /\ Abs(plotted[i + 1].y - plotted[i].y) <= 1
               /\ \A i \in 1..n :
                     fb[get_pixel_pointer(d, plotted[i].x, plotted[i].y)]
                         = op.arg.pixel
               /\ stray = {}

\* a line going left and down, steeper than the diagonal, has been drawn
C20_Witness ==
    /\ op.name = "graphics_draw_line"
    /\ op.arg.start = Coord(3, 0) /\ op.arg.end = Coord(1, 5)
    /\ Len(plotted) = 6
    /\ plotted[1] = Coord(3, 0) /\ plotted[6] = Coord(1, 5)

\* the coordinate of the frame the pixel at index i of the frame buffer shows
FrameCoord(i) == Coord(i % d.frame_box.width, i \div d.frame_box.width)

\* C17: a drawing call, whatever the primitive and the blit op, leaves every
\* frame buffer pixel whose coordinate is outside the clipping box as it
\* was, and returns 0.
C17_OutsideClipUnchanged ==
    [][draws' # draws
         => /\ ret' = 0
            /\ \A i \in DOMAIN fb :
                  ~in_box(d.clipping_box, FrameCoord(i)) => fb'[i] = fb[i]]_vars

\* the locations a line from a to b plots, in order
LinePlot(a, b, pixel) == graphics_draw_line(Entry, a, b, pixel).plotted

\* the locations of the edges i, .., n-1 of a closed polygon, in order
RECURSIVE EdgesPlot(_, _, _, _)
EdgesPlot(points, n, pixel, i) ==
    IF i >= n THEN <<>>
    ELSE LinePlot(points[i + 1], points[((i + 1) % n) + 1], pixel)
             \o EdgesPlot(points, n, pixel, i + 1)

\* the coordinates of the frame that hold a pixel other than zero
Painted ==
    {c \in FramePoints(d.frame_box.width, d.frame_box.height) :
        fb[get_pixel_pointer(d, c.x, c.y)] # ZeroPixel}

\* C21: draw_poly(points, n, p) on a zeroed frame plots the n edges
\* points[i] -> points[(i+1) mod n], i = 0..n-1, in that order and nothing
\* else (nothing for n = 0), the plotted pixels hold p and every other pixel
\* is unchanged; for the four corners of a rectangle the pixels that hold p
\* are those of the perimeter, the interior stays as it was.
C21_PolyClosedEdges ==
    op.name = "graphics_draw_poly"
        => LET points == op.arg.coord_list
               n == op.arg.count
               xs == {points[i].x : i \in 1..n}
               ys == {points[i].y : i \in 1..n}
           IN  /\ ret = 0
               /\ plotted = EdgesPlot(points, n, op.arg.pixel, 0)
               /\ n = 0 => plotted = <<>>
               /\ Painted = {plotted[i] : i \in 1..Len(plotted)}
               /\ \A c \in Painted : fb[get_pixel_pointer(d, c.x, c.y)] = op.arg.pixel
               /\ points \in RectangleCorners(d.frame_box.width)
                    => Painted =
                         {c \in FramePoints(d.frame_box.width, d.frame_box.height) :
                            /\ \E x0 \in xs, x1 \in xs : x0 <= c.x /\ c.x <= x1
                            /\ \E y0 \in ys, y1 \in ys : y0 <= c.y /\ c.y <= y1
                            /\ c.x \in xs \/ c.y \in ys}

\* the rectangle with corners (0,0) and (3,3): 12 perimeter pixels painted,
\* the four interior ones are not
C21_Witness ==
    /\ op.name = "graphics_draw_poly"
    /\ op.arg.coord_list = <<Coord(0, 0), Coord(3, 0), Coord(3, 3), Coord(0, 3)>>
    /\ Cardinality(Painted) = 12
    /\ {Coord(1, 1), Coord(1, 2), Coord(2, 1), Coord(2, 2)} \cap Painted = {}

\* C22: fill_box_with_pixel(box, p, op) sets every frame buffer pixel whose
\* coordinate is inside both box and the clipping box to op(old, p), leaves
\* every other pixel as it was and returns 0; with op = COPY the same call
\* made again leaves the frame buffer as the first call left it.
C22_FillBoxExact ==
    [][draws' # draws /\ op'.name = "graphics_fill_box_with_pixel"
         => /\ ret' = 0
            /\ \A i \in DOMAIN fb :
                  fb'[i] = IF /\ in_box(op'.arg.box, FrameCoord(i))
                              /\ in_box(d.clipping_box, FrameCoord(i))
                           THEN apply_with_blit(fb[i], op'.arg.pixel, op'.arg.blit_op)
                           ELSE fb[i]
            /\ op'.arg.blit_op = "COPY"
                 => graphics_fill_box_with_pixel([Entry EXCEPT !.fb = fb'],
                        op'.arg.box, op'.arg.pixel, "COPY").fb = fb']_vars

\* the frame buffer index of a location of the frame
FrameIndex(c) == get_pixel_pointer(d, c.x, c.y)

\* the offsets (dx, dy) within a box
Offsets(box) == {Coord(dx, dy) : dx \in 0..(box.width - 1), dy \in 0..(box.height - 1)}

\* C23: fill_box_with_bitmap(box, bitmap, op) with a bitmap of non-zero width
\* and height finds, for every offset (dx, dy) within box, a pixel of the
\* bitmap at (dx mod width, dy mod height), never the null pointer; and for
\* every offset whose destination is in the frame and inside the clipping
\* box the destination pixel becomes op(old, that bitmap pixel).
C23_BitmapTiles ==
    [][draws' # draws /\ op'.name = "graphics_fill_box_with_bitmap"
         => LET box == op'.arg.box
                bitmap == op'.arg.bitmap
                at(o) == ((o.y % bitmap.height) * bitmap.width) + (o.x % bitmap.width)
            IN  /\ ret' = 0
                /\ NullAccess \notin stray'
                /\ \A o \in Offsets(box) :
                      LET dest == Coord(box.x + o.x, box.y + o.y)
                      IN  /\ get_bitmap_pixel_pointer(bitmap, o.x % bitmap.width,
                                 o.y % bitmap.height) = PtrTo(at(o))
                          /\ at(o) \in DOMAIN bitmap.pixels
                          /\ in_box(d.frame_box, dest) /\ in_box(d.clipping_box, dest)
                               => fb'[FrameIndex(dest)]
                                    = apply_with_blit(fb[FrameIndex(dest)],
                                          bitmap.pixels[at(o)], op'.arg.blit_op)]_vars

\* do two boxes have a location in common
Overlap(a, b) ==
    /\ a.x < b.x + b.width /\ b.x < a.x + a.width
    /\ a.y < b.y + b.height /\ b.y < a.y + a.height

\* The frame after the first n steps of a copy of box src to box dst on
\* frame f: step k (from 0) has the offset (k div dst.height, k mod
\* dst.height), x outer and y inner; it reads the frame as the steps before
\* it left it and writes a destination of the frame inside the clipping box
RECURSIVE StepwiseCopy(_, _, _, _, _)
StepwiseCopy(f, src, dst, blit_op, n) ==
    IF n = 0 THEN f
    ELSE LET g == StepwiseCopy(f, src, dst, blit_op, n - 1)
             dx == (n - 1) \div dst.height
             dy == (n - 1) % dst.height
             dest == Coord(dst.x + dx, dst.y + dy)
             from == Coord(src.x + (dx % src.width), src.y + (dy % src.height))
         IN  IF in_box(d.frame_box, dest) /\ in_box(d.clipping_box, dest)
                 THEN [g EXCEPT ![FrameIndex(dest)] =
                           apply_with_blit(@, g[FrameIndex(from)], blit_op)]
             ELSE g

\* C24: copy_box(src_box, dst_box, op) with src_box in the frame leaves the
\* frame as the steps over the destination offsets leave it, taken one at a
\* time with the x offset outer and the y offset inner, each reading the
\* current pixel at (src_box.x + dx mod src_box.width, src_box.y + dy mod
\* src_box.height) and writing op(dst, src) to the destination; when the two
\* boxes do not overlap every destination holds op of its own and its
\* source's value from before the call.  The call returns 0.
C24_CopyBoxStepwise ==
    [][draws' # draws /\ op'.name = "graphics_copy_box"
         => LET src == op'.arg.source_box
                dst == op'.arg.dest_box
            IN  /\ ret' = 0
                /\ fb' = StepwiseCopy(fb, src, dst, op'.arg.blit_op,
                                      dst.width * dst.height)
                /\ ~Overlap(src, dst)
                     => \A o \in Offsets(dst) :
                          LET dest == Coord(dst.x + o.x, dst.y + o.y)
                              from == Coord(src.x + (o.x % src.width),
                                            src.y + (o.y % src.height))
                          IN  in_box(d.frame_box, dest) /\ in_box(d.clipping_box, dest)
                                => fb'[FrameIndex(dest)]
                                     = apply_with_blit(fb[FrameIndex(dest)],
                                           fb[FrameIndex(from)], op'.arg.blit_op)]_vars

\* the operations that draw, and the one that sets the clipping box
DrawingOps ==
    {"graphics_draw_pixel", "graphics_draw_line", "graphics_draw_poly",
     "graphics_fill_box_with_pixel", "graphics_fill_box_with_bitmap",
     "graphics_copy_box", "graphics_set_clipping_box"}

\* C25: a drawing primitive or graphics_set_clipping_box publishes no chain
\* and leaves the device, its resources' contents included, as it was; the
\* content of a resource changes only in a flush that published a
\* TRANSFER_TO_HOST_2D the device accepted.
C25_DrawingNeverPublishes ==
    [][/\ op'.name \in DrawingOps => published' = <<>> /\ gpu' = gpu
       /\ (\E res \in gpu.resources :
              Resource(gpu', res.id).content # res.content)
            => /\ op'.name = "flush"
               /\ \E k \in 1..Len(published') :
                     /\ published'[k].req.type = "CMD_TRANSFER_TO_HOST_2D"
                     /\ published'[k].resp = "RESP_OK_NODATA"]_vars

\* a box has been filled: the frame holds it, the device still the zeroed
\* frame, and nothing was published
C25_Witness ==
    /\ op.name = "graphics_fill_box_with_pixel"
    /\ published = <<>>
    /\ fb # ZeroFb(DrawWidth * DrawHeight)
    /\ Resource(gpu, SCREEN_RID).content = ZeroFb(DrawWidth * DrawHeight)

---------------------------------------------------------------------------
(* Properties of virtio_gpu_init *)

\* the messages of the steps of virtio_gpu_init that can fail after the
\* state structure was allocated
InitStepErrors ==
    {"Could not acknowledge device", "Unable to read device features",
     "Unable to write device features", "failed to initialize virtqueues",
     "failed to register block device", "cannot get vector...",
     "failed to register int handler", "failed to set MSI-X entry",
     "failed to unmask entry"}

\* the last call of virtio_gpu_init failed in one of these steps
InitStepFailed ==
    /\ op.name = "virtio_gpu_init"
    /\ errors # <<>>
    /\ errors[1] \in InitStepErrors

\* the device the last call was for has no state structure allocated, no
\* initialized virtqueues and no GPU device registered
InitUnwound ==
    /\ op.arg.v.id \notin kernel.allocated
    /\ op.arg.v.id \notin kernel.virtqs
    /\ \A g \in kernel.gpu_devs : g.state # op.arg.v.id

\* C28: when a step of virtio_gpu_init fails (acknowledge, feature read or
\* write, virtqueue init, device registration, vector reservation, handler
\* registration, MSI-X entry set or unmask), init returns -1 and has freed
\* the device state structure, deinitialized the virtqueues it initialized
\* and left no GPU device registered.
C28_InitFailureUnwinds ==
    InitStepFailed => (ret = -1 /\ InitUnwound)

---------------------------------------------------------------------------
(* Properties of the virtqueue transport *)

\* the last call of transact_rw / transact_rrw found no descriptor chain
AllocFailed ==
    /\ op.name \in {"transact_rw", "transact_rrw"}
    /\ virtq.pc = "idle"
    /\ virtq.desc_idx = <<>>

\* C26: when the allocation of the descriptor chain fails, transact_rw and
\* transact_rrw return -1 without side effects: the avail ring and the avail
\* index are as they were when the call began, no descriptor slot was written
\* and none left the free pool, nothing was stored to queue_select or
\* queue_enable, the device was not notified and no chain was published.
C26_AllocFailureNoSideEffects ==
    AllocFailed =>
        /\ ret = -1
        /\ virtq.avail = virtq.entry.avail
        /\ virtq.desc = virtq.entry.desc
        /\ virtq.free = virtq.entry.free
        /\ virtq.log = <<>>
        /\ published = <<>>
        /\ virtq.used.idx = virtq.avail.idx

\* transact_rrw fails to get a chain after one transaction has completed
C26_Witness ==
    /\ AllocFailed
    /\ op.name = "transact_rrw"
    /\ ret = -1
    /\ virtq.avail.idx = 1
    /\ virtq.calls = 2

\* C27: with the one control path, at most one chain is published and not
\* yet returned: the avail index is the used index or one ahead of it in
\* every state, and the commands the device has taken are, in order, the
\* first commands the driver issued.
C27_OneChainOutstanding ==
    /\ (virtq.avail.idx - virtq.used.idx) % UINT16_MOD \in {0, 1}
    /\ Len(virtq.taken) <= Len(virtq.issued)
    /\ \A k \in 1 .. Len(virtq.taken) : virtq.taken[k].req = virtq.issued[k]

\* the second transaction is outstanding after the first completed, and
\* the two commands differ
C27_Witness ==
    /\ virtq.avail.idx = 2
    /\ virtq.used.idx = 1
    /\ virtq.pc = "poll"
    /\ Len(virtq.taken) = 1
    /\ virtq.issued[1] # virtq.issued[2]

\* what a transaction with a chain of count descriptors stores, in order
StoreOrder(count) ==
    [k \in 1 .. count |-> "desc"] \o
        <<"ring", "idx", "queue_select", "queue_enable", "notify", "free">>

\* the entry of the avail ring below the avail index holds the head of the
\* chain of the transaction in progress, filled in full
HeadPublished ==
    LET head == virtq.avail.ring[(virtq.avail.idx - 1) % QueueSize]
        chain == ChainFrom(virtq.desc, head, QueueSize)
    IN  /\ head = virtq.desc_idx[1]
        /\ chain = virtq.desc_idx
        /\ DevTake(virtq).head = head
        /\ DevTake(virtq).segs = Segments(virtq.nseg)
        /\ \A k \in 1 .. Len(chain) : virtq.desc[chain[k]].len # "none"

\* C29: a transaction fills its descriptor slots, then writes the head to
\* avail.ring[avail_idx mod qsize], then increments avail_idx, and only then
\* stores queue_select and queue_enable and notifies the device; so whenever
\* the device can observe an avail index it has not yet served, the ring
\* entry below that index holds the head of a fully filled chain, and no
\* notify comes before the publish.
C29_PublicationOrder ==
    /\ Len(virtq.log) <= Len(StoreOrder(virtq.nseg))
    /\ \A k \in 1 .. Len(virtq.log) : virtq.log[k] = StoreOrder(virtq.nseg)[k]
    /\ virtq.avail.idx # virtq.used.idx => HeadPublished

\* the device has taken a chain of three descriptors whose head is not
\* descriptor 0 before the driver stored queue_select
C29_Witness ==
    /\ virtq.pc = "select"
    /\ virtq.nseg = 3
    /\ virtq.desc_idx[1] # 0
    /\ virtq.used.idx = virtq.avail.idx
    /\ Len(virtq.taken) = Len(virtq.issued)
    /\ virtq.taken[Len(virtq.taken)].segs = Segments(3)

\* the chain of the transaction in progress is with the device
Outstanding == virtq.avail.idx # virtq.used.idx

\* C30: from the publication of a chain until the device has advanced the
\* used index to the wait value the driver writes no descriptor slot and
\* frees none; the chain goes back to the free pool once, after completion,
\* and when a transaction has returned the free pool is what it was when
\* the transaction was called.
C30_DescriptorOwnership ==
    /\ [][Outstanding => /\ virtq'.desc = virtq.desc
                         /\ virtq'.free = virtq.free]_vars
    /\ [](Outstanding =>
            \A k \in 1 .. Len(virtq.desc_idx) : virtq.desc_idx[k] \notin virtq.free)
    /\ [](Cardinality({k \in 1 .. Len(virtq.log) : virtq.log[k] = "free"}) <= 1)
    /\ []((virtq.pc = "idle" /\ virtq.desc_idx # <<>>) =>
            /\ virtq.log[Len(virtq.log)] = "free"
            /\ ~Outstanding
            /\ virtq.free = virtq.entry.free
            /\ Cardinality(virtq.free) = QueueSize)

\* the second transaction, of a chain of three descriptors, has returned
C30_Witness ==
    /\ virtq.pc = "idle"
    /\ virtq.calls = 2
    /\ Len(virtq.taken) = 2
    /\ virtq.nseg = 3
    /\ ret = 0
    /\ Cardinality(virtq.free) = QueueSize

\* C31: with the one caller and a device that serves every chain it is
\* given, a transaction that got its chain returns 0 in the end, also when
\* the 16-bit indexes wrap around in it; and the polling loop is left only
\* once the device has advanced the used index to the wait value, so a call
\* whose chain the device never serves never returns.
C31_PollingWaitLive ==
    /\ (virtq.pc = "fill") ~> (virtq.pc = "idle" /\ virtq.rc = 0 /\ ret = 0)
    /\ [][(virtq.pc = "poll" /\ virtq'.pc # "poll") =>
            /\ virtq.used.idx = virtq.waitidx
            /\ Len(virtq.taken) = Len(virtq.issued)]_vars
    /\ [][(virtq.pc # "idle" /\ virtq'.pc = "idle") =>
            Len(virtq'.taken) = Len(virtq'.issued)]_vars

\* a transaction begun at avail index 65535 has returned 0 at index 0
C31_Witness ==
    /\ virtq.pc = "idle"
    /\ virtq.calls = 1
    /\ virtq.rc = 0
    /\ ret = 0
    /\ virtq.entry.avail.idx = UINT16_MOD - 1
    /\ virtq.avail.idx = 0
    /\ virtq.used.idx = 0

\* flags & bit
HasFlag(flags, bit) == (flags \div bit) % 2 = 1

\* the slots of the chain of the running transaction are the request
\* segments in order, each pointing to the next slot and not writable, and
\* then the response, writable and with next = 0
ChainWellFormed ==
    LET chain == virtq.desc_idx
        n == Len(chain)
        slot(k) == virtq.desc[chain[k]]
    IN  /\ n = virtq.req.nseg + 1
        /\ ChainFrom(virtq.desc, virtq.avail.ring[(virtq.avail.idx - 1) % QueueSize],
                     QueueSize) = chain
        /\ \A k \in 1 .. (n - 1) :
            /\ slot(k).addr = (IF k = 1 THEN "req" ELSE "more")
            /\ slot(k).len = slot(k).addr
            /\ slot(k).next = chain[k + 1]
            /\ ~HasFlag(slot(k).flags, VIRTQ_DESC_F_WRITE)
        /\ slot(n).addr = "resp"
        /\ slot(n).len = "resp"
        /\ slot(n).next = 0
        /\ HasFlag(slot(n).flags, VIRTQ_DESC_F_WRITE)
        /\ ~HasFlag(slot(n).flags, VIRTQ_DESC_F_NEXT)

---------------------------------------------------------------------------
(* Properties of the response check *)

\* the one response type a command succeeds with
Expected(type) ==
    IF type = "CMD_GET_DISPLAY_INFO" THEN "RESP_OK_DISPLAY_INFO"
                                     ELSE "RESP_OK_NODATA"

\* the published command c did not get that response
Refused(c) == c.resp # Expected(c.req.type)

FlushCommands == {"CMD_TRANSFER_TO_HOST_2D", "CMD_RESOURCE_FLUSH"}

\* in each of these results of a function called with nothing published, a
\* refused command is the last one published and the function returned -1
ChecksResponses(results) ==
    \A r \in results :
        \A k \in 1 .. Len(r.s.pub) :
            Refused(r.s.pub[k]) => (r.rc = -1 /\ k = Len(r.s.pub))

\* C33: every response buffer starts zeroed, and when a command of
\* update_modes, reset, set_mode or flush comes back with anything but its
\* one success type, also with the response left as zeroed, the function
\* that issued it returns -1 and publishes no further command: update_modes,
\* reset and flush called in any reachable state, and the public operation
\* as a whole, where only a flush inside set_mode may fail unnoticed by
\* set_mode, which then publishes at most the commands of a later reset.
C33_ResponseChecked ==
    /\ ChecksResponses(update_modes(Entry))
    /\ ChecksResponses(reset(Entry))
    /\ ChecksResponses(flush(Entry))
    /\ \A k \in 1 .. Len(published) :
        Refused(published[k]) =>
            IF op.name = "set_mode" /\ published[k].req.type \in FlushCommands
                THEN \A j \in (k + 1) .. Len(published) :
                        published[j].req.type \notin FlushCommands
                ELSE ret = -1 /\ k = Len(published)

\* set_mode has returned -1 on an ATTACH_BACKING response left as zeroed
C33_Witness ==
    /\ op.name = "set_mode"
    /\ ret = -1
    /\ Len(published) >= 2
    /\ published[Len(published)].req.type = "CMD_RESOURCE_ATTACH_BACKING"
    /\ published[Len(published)].resp = "ZERO"

---------------------------------------------------------------------------
(* Properties of the command order *)

\* the commands of a switch to a graphics mode begun in mode from
SetModeOrder(from) ==
    (IF from # 0 THEN <<"CMD_RESOURCE_DETACH_BACKING", "CMD_RESOURCE_UNREF">>
                 ELSE <<>>) \o
    <<"CMD_RESOURCE_CREATE_2D", "CMD_RESOURCE_ATTACH_BACKING", "CMD_SET_SCANOUT",
      "CMD_TRANSFER_TO_HOST_2D", "CMD_RESOURCE_FLUSH">>

\* the first n of these commands were published in order and each was
\* answered OK, all for SCREEN_RID, ATTACH_BACKING with one entry in a chain
\* of three and SET_SCANOUT for the scanout of the mode
PublishedInOrder(n) ==
    /\ Len(published) >= n
    /\ \A k \in 1 .. n :
        LET c == published[k]
        IN  /\ c.req.type = SetModeOrder(op.cur_mode)[k]
            /\ c.resp = "RESP_OK_NODATA"
            /\ c.req.resource_id = SCREEN_RID
            /\ c.req.type = "CMD_RESOURCE_ATTACH_BACKING" =>
                    (c.req.nseg = 2 /\ c.req.nr_entries = 1)
            /\ c.req.type = "CMD_SET_SCANOUT" => c.req.scanout_id = op.arg - 1

\* C34: a set_mode to a graphics mode that returns 0 has published, in this
\* order, DETACH_BACKING and RESOURCE_UNREF if it began in a graphics mode,
\* then CREATE_2D, ATTACH_BACKING (one entry, a chain of three), SET_SCANOUT
\* (scanout k-1), TRANSFER_TO_HOST_2D and RESOURCE_FLUSH, each answered OK
\* before the next and all for SCREEN_RID, and nothing else.
C34_SetModeCommandOrder ==
    (op.name = "set_mode" /\ op.arg # 0 /\ ret = 0) =>
        /\ Len(published) = Len(SetModeOrder(op.cur_mode))
        /\ PublishedInOrder(Len(SetModeOrder(op.cur_mode)))

\* what reset does after its two commands, in the order of the code
ResetTail == <<"free(frame_buffer)", "device_status = 0", "cur_mode = 0">>

\* reset, called in this state with nothing published, goes in the order
\* DETACH_BACKING, RESOURCE_UNREF, then tail
ResetInOrder(tail) ==
    \A r \in reset(Entry) :
        LET types == [k \in 1 .. Len(r.s.pub) |-> r.s.pub[k].req.type]
        IN  IF d.cur_mode = 0
                THEN r.rc = 0 /\ r.s = Entry
                ELSE /\ \A k \in 1 .. Len(r.s.pub) :
                            r.s.pub[k].req.resource_id = SCREEN_RID
                     /\ r.rc = 0 =>
                            /\ types = <<"CMD_RESOURCE_DETACH_BACKING",
                                         "CMD_RESOURCE_UNREF">>
                            /\ \A k \in 1 .. 2 : r.s.pub[k].resp = "RESP_OK_NODATA"
                            /\ r.s.steps = tail
                            /\ r.s.d.frame_buffer = NULL
                            /\ r.s.d.cur_mode = 0
                            /\ r.s.gpu.device_status = 0
                            /\ \A a \in r.s.heap : a.addr # d.frame_buffer
                     /\ r.rc # 0 =>
                            /\ r.rc = -1
                            /\ r.s.steps = <<>>
                            /\ types \in {<<>>, <<"CMD_RESOURCE_DETACH_BACKING">>,
                                          <<"CMD_RESOURCE_DETACH_BACKING",
                                            "CMD_RESOURCE_UNREF">>}

\* C35 as the code has it: reset from S_k goes DETACH_BACKING(SCREEN_RID),
\* RESOURCE_UNREF(SCREEN_RID), free framebuffer, store 0 to the device
\* status register, clear cur_mode, and on success leaves frame_buffer null
\* and cur_mode = 0; reset from S0 does none of it.
C35_ResetOrder == ResetInOrder(ResetTail)

\* C35 as stated: ... free framebuffer, clear cur_mode, store 0 to the device
\* status register.
C35_ResetOrderAsStated ==
    ResetInOrder(<<"free(frame_buffer)", "cur_mode = 0", "device_status = 0">>)

\* a set_mode begun in a graphics mode has gone through reset and ended in
\* text mode
C35_Witness ==
    /\ op.name = "set_mode"
    /\ op.cur_mode # 0
    /\ ret = 0
    /\ d.cur_mode = 0
    /\ d.frame_buffer = NULL
    /\ Len(published) = 2

(* Properties of the heap *)

\* every live allocation is the driver's frame buffer or its cursor buffer
HeapTidy(dd, h) == \A b \in h : b.addr \in {dd.frame_buffer, dd.cursor_buffer}

\* C39: heap buffers do not accumulate: a successful set_mode begun with at
\* most one frame buffer and one cursor buffer live ends with at most one
\* frame buffer and one cursor buffer live.
C39_BuffersDoNotAccumulate ==
    [][(HeapTidy(d, heap) /\ op'.name = "set_mode" /\ ret' = 0)
          => HeapTidy(d', heap')]_vars

---------------------------------------------------------------------------
(* The length of the frame buffer at the width of the program's integers.  *)
(* An unsigned integer of n bytes is the sequence of its n bytes, lowest   *)
(* first.                                                                  *)

UINT32_BYTES == 4
UINT64_BYTES == 8

\* the value as an integer of n bytes: the upper bytes are dropped or zero
Convert(a, n) == [k \in 1..n |-> IF k <= Len(a) THEN a[k] ELSE 0]

\* the sum of the byte products that make byte k of a product
RECURSIVE Column(_, _, _, _)
Column(a, b, k, i) ==
    IF i > Len(a)
        THEN 0
        ELSE (IF (k + 1 - i) \in 1..Len(b) THEN a[i] * b[k + 1 - i] ELSE 0)
             + Column(a, b, k, i + 1)

RECURSIVE Carry(_, _)
Carry(columns, c) ==
    IF columns = <<>>
        THEN <<>>
        ELSE LET t == columns[1] + c
             IN  <<t % (UINT8_MAX + 1)>> \o Carry(Tail(columns), t \div (UINT8_MAX + 1))

\* a * b in an integer of n bytes: whatever does not fit is lost
Mul(a, b, n) == Carry([k \in 1..n |-> Column(a, b, k, 1)], 0)

\* sizeof(nk_gpu_dev_pixel_t), a size_t
SizeofPixel == Convert(<<PIXEL_SIZE>>, UINT64_BYTES)

\* uint64_t fb_length = pm->r.width * pm->r.height * sizeof(nk_gpu_dev_pixel_t):
\* the two le32 sides are multiplied in 32 bits, the product is converted to
\* size_t and multiplied by the size of a pixel in 64 bits
fb_length(width, height) ==
    Mul(Convert(Mul(width, height, UINT32_BYTES), UINT64_BYTES),
        SizeofPixel, UINT64_BYTES)

\* backing_entry.length = fb_length, length being a le32
backing_entry_length(len) == Convert(len, UINT32_BYTES)

\* width * height * 4 as a number: nine bytes hold it
Exact(width, height) ==
    Mul(Mul(width, height, 2 * UINT32_BYTES), <<PIXEL_SIZE>>,
        2 * UINT32_BYTES + 1)

\* the bytes a side of a mode is made of here
SideBytes == {0, 1, 128, UINT8_MAX}

Sides == [1..UINT32_BYTES -> SideBytes]

LengthInputs == {[kind |-> "mode", width |-> w, height |-> h] : w, h \in Sides}

InitLength == InitInputs({DisplayTable({1, 3})}, LengthInputs)

\* steps 3 and 5 of set_mode, as far as the length goes
FrameBufferLength ==
    /\ input.kind = "mode"
    /\ LET len == fb_length(input.width, input.height)
       IN  Computed("fb_length",
                    [allocated |-> len,
                     length |-> backing_entry_length(len),
                     exact |-> Exact(input.width, input.height)])

NextLength == FrameBufferLength

SpecLength == InitLength /\ [][NextLength]_vars

\* the same number, whatever the number of bytes it is held in
SameNumber(a, b) ==
    LET n == IF Len(a) > Len(b) THEN Len(a) ELSE Len(b)
    IN  Convert(a, n) = Convert(b, n)

\* C36: the number of bytes allocated for the frame buffer and the length
\* handed to the device in ATTACH_BACKING both equal width * height * 4,
\* without wraparound or truncation, for every 32-bit width and height.
C36_FrameBufferLength ==
    op.name = "fb_length" =>
        /\ SameNumber(out.allocated, out.exact)
        /\ SameNumber(out.length, out.exact)

\* C36, the part that holds: the two lengths are width * height * 4 whenever
\* that number fits the 32 bits of the length field.
LengthWhenItFits ==
    (op.name = "fb_length" /\ SameNumber(out.exact, Convert(out.exact, UINT32_BYTES))) =>
        /\ SameNumber(out.allocated, out.exact)
        /\ SameNumber(out.length, out.exact)

\* the length of a 65536 x 65536 mode: nothing is allocated
WrappedToNothing ==
    /\ op.name = "fb_length"
    /\ input.width = <<0, 0, 1, 0>> /\ input.height = <<0, 0, 1, 0>>
    /\ out.allocated = Convert(<<>>, UINT64_BYTES)

\* the length of a 32768 x 32768 mode: 4 GiB allocated, length 0 attached
TruncatedToNothing ==
    /\ op.name = "fb_length"
    /\ input.width = <<0, 128, 0, 0>> /\ input.height = <<0, 128, 0, 0>>
    /\ out.allocated = <<0, 0, 0, 0, 1, 0, 0, 0>>
    /\ out.length = <<0, 0, 0, 0>>

---------------------------------------------------------------------------
(* Drawing before and after the return to the text mode *)

\* set_mode(text mode)
SetModeText == set_mode(Entry, 0)

NextSafe ==
    \/ SetClip
    \/ DrawPixel
    \/ FillBoxWithPixel
    \/ SetModeText

SpecSafe == InitDraw /\ [][NextSafe]_vars

\* C37: after any sequence of set_mode, set_clipping_box and drawing calls
\* no drawing primitive has written a pixel anywhere but in the frame
\* buffer: none while frame_buffer is null, none at an index beyond
\* width * height.
C37_FrameBufferWritesSafe == stray = {}

\* C37, after the return to the text mode: a drawing call made while
\* frame_buffer is null writes nothing.
NoWriteInTextMode ==
    [][(draws' # draws /\ d.frame_buffer = NULL) => stray' = stray]_vars

\* C37, after a caller-supplied clipping box: a drawing call made in a
\* graphics mode writes nothing beyond the frame buffer.
NoWriteBeyondFrame ==
    [][(draws' # draws /\ d.frame_buffer # NULL) => stray' = stray]_vars

\* C37, as far as it holds: a drawing call made in a graphics mode whose
\* clipping box is inside the frame writes nothing beyond the frame buffer.
NoWriteBeyondFrameWhenClipped ==
    [][(draws' # draws /\ d.frame_buffer # NULL
           /\ d.clipping_box.x + d.clipping_box.width
                  <= d.frame_box.x + d.frame_box.width
           /\ d.clipping_box.y + d.clipping_box.height
                  <= d.frame_box.y + d.frame_box.height)
          => stray' = stray]_vars

---------------------------------------------------------------------------
(* Two control paths in transactions on virtqueue 0 at once.  Nothing in   *)
(* the driver takes the device lock, so the statements of the two calls    *)
(* interleave.  virtq is here [q, path]: q holds what the paths share (the *)
(* descriptor table, the free pool, the rings), path[p] what is local to   *)
(* the call of path p (its position, desc_idx, waitidx, ...).              *)

Paths == {1, 2}

RaceQueueSize == 4   \* descriptors of the queue the two paths share

\* the queue as the statements of a call see it: shared memory and the
\* locals of the call
Joined(q, lo) ==
    [desc |-> q.desc, free |-> q.free, avail |-> q.avail, used |-> q.used,
     qsz |-> q.qsz, calls |-> q.calls, issued |-> q.issued, taken |-> q.taken,
     pc |-> lo.pc, nseg |-> lo.nseg, desc_idx |-> lo.desc_idx,
     waitidx |-> lo.waitidx, req |-> lo.req, resp |-> lo.resp, rc |-> lo.rc,
     log |-> lo.log, entry |-> lo.entry]

SharedOf(v) ==
    [desc |-> v.desc, free |-> v.free, avail |-> v.avail, used |-> v.used,
     qsz |-> v.qsz, calls |-> v.calls, issued |-> v.issued, taken |-> v.taken]

LocalsOf(v) ==
    [pc |-> v.pc, nseg |-> v.nseg, desc_idx |-> v.desc_idx,
     waitidx |-> v.waitidx, req |-> v.req, resp |-> v.resp, rc |-> v.rc,
     log |-> v.log, entry |-> v.entry]

\* path p has run to v
Ran(p, v) == [q |-> SharedOf(v), path |-> [virtq.path EXCEPT ![p] = LocalsOf(v)]]

InitRace ==
    /\ d = InitDev
    /\ gpu = [resources |-> {}, scanouts |-> NoScanouts,
              device_status |-> STATUS_ACKNOWLEDGED]
    /\ display = DisplayTable({1, 3})
    /\ heap = {}
    /\ vga_screen = "boot"
    /\ known_modes = {}
    /\ trip = [live |-> FALSE, screen |-> "boot", regraphics |-> FALSE]
    /\ fb = <<>>
    /\ stray = {}
    /\ plotted = <<>>
    /\ draws = 0
    /\ input = [kind |-> "none"]
    /\ published = <<>>
    /\ errors = <<>>
    /\ op = [name |-> "init", arg |-> 0, cur_mode |-> 0]
    /\ ret = 0
    /\ out = [modes |-> <<>>, num |-> 0]
    /\ virtq = [q |-> SharedOf(VirtqOfSize(RaceQueueSize)),
                path |-> [p \in Paths |-> LocalsOf(VirtqOfSize(RaceQueueSize))]]
    /\ kernel = InitKernel
    /\ parport = InitParport

\* path p calls transact_rw, once; of the chains the allocator may hand
\* out, those with the lower slot first are followed
PathCall(p) ==
    /\ virtq.path[p].pc = "idle"
    /\ virtq.path[p].nseg = 0
    /\ \E req \in TransactRequests,
          chain \in {<<>>} \cup {c \in FreeChains(virtq.q, 2) : c[1] < c[2]} :
          virtq' = Ran(p, transact_entry(Joined(virtq.q, virtq.path[p]),
                                         [req EXCEPT !.nseg = 1], 2, chain))
    /\ UNCHANGED <<d, gpu, display, heap, vga_screen, known_modes, trip, fb,
                   stray, plotted, draws, input, published, errors, op, ret,
                   out, kernel, parport>>

\* the next statement of the call of path p
PathStep(p) ==
    /\ virtq.path[p].pc # "idle"
    /\ virtq' = Ran(p, transact_step(Joined(virtq.q, virtq.path[p])))
    /\ UNCHANGED <<d, gpu, display, heap, vga_screen, known_modes, trip, fb,
                   stray, plotted, draws, input, published, errors, op, ret,
                   out, kernel, parport>>

\* the device takes the chain of the next ring entry and advances the
\* used index
DeviceServes ==
    /\ virtq.q.avail.idx # virtq.q.used.idx
    /\ LET t == DevTake(virtq.q)
       IN  virtq' = [virtq EXCEPT
                        !.q.used.idx = (@ + 1) % UINT16_MOD,
                        !.q.taken = Append(@, [head |-> t.head, segs |-> t.segs])]
    /\ UNCHANGED <<d, gpu, display, heap, vga_screen, known_modes, trip, fb,
                   stray, plotted, draws, input, published, errors, op, ret,
                   out, kernel, parport>>

NextRace ==
    \/ \E p \in Paths : PathCall(p)
    \/ \E p \in Paths : PathStep(p)
    \/ DeviceServes

\* both paths run on, and the device serves every chain it was given
SpecRace ==
    /\ InitRace
    /\ [][NextRace]_vars
    /\ \A p \in Paths : WF_vars(PathStep(p))
    /\ WF_vars(DeviceServes)

\* the device has taken the chain path p published
OwnChainServed(v, p) ==
    \E k \in 1 .. Len(v.q.taken) :
        /\ v.q.taken[k].head = v.path[p].desc_idx[1]
        /\ v.q.taken[k].segs = Segments(2)

\* C38: two control paths call a transaction on the same queue with nothing
\* that serializes them, and the device serves every published chain: each
\* call returns in the end, and a call that got a chain returns only after
\* the device served that chain.
C38_UnserializedCallsReturn ==
    /\ \A p \in Paths : (virtq.path[p].pc # "idle") ~> (virtq.path[p].pc = "idle")
    /\ [][\A p \in Paths :
            (virtq.path[p].pc = "poll" /\ virtq'.path[p].pc # "poll")
                => OwnChainServed(virtq, p)]_vars

\* C38, the first half: each of the two calls returns in the end.
BothCallsReturn ==
    \A p \in Paths : (virtq.path[p].pc # "idle") ~> (virtq.path[p].pc = "idle")

\* C38, the second half: a call leaves its wait only after the device
\* served its chain.
ReturnAfterOwnChain ==
    [][\A p \in Paths :
          (virtq.path[p].pc = "poll" /\ virtq'.path[p].pc # "poll")
              => OwnChainServed(virtq, p)]_vars

\* both paths are in the polling wait: neither call waited for the other
BothPathsWait == \A p \in Paths : virtq.path[p].pc = "poll"

\* path 1 waits for a used index the device has gone past
WaitMissed ==
    /\ virtq.path[1].pc = "poll"
    /\ virtq.path[2].pc = "idle" /\ virtq.path[2].rc = 0 /\ virtq.path[2].nseg = 2
    /\ virtq.q.avail.idx = virtq.q.used.idx
    /\ virtq.path[1].waitidx # virtq.q.used.idx

---------------------------------------------------------------------------
(* The parallel port driver called by two callers at once, with its        *)
(* interrupt at any time                                                   *)

\* caller c calls read (write = 0), write (write = 1) or status
ParportCall(c) ==
    /\ parport.call[c].pc = "idle"
    /\ \E fn \in {"read_write", "status"}, write \in {0, 1} :
          /\ fn = "status" => write = 0
          /\ parport' = [parport EXCEPT
                            !.call[c] = [NoCall EXCEPT !.pc = "lock", !.fn = fn,
                                                       !.write = write]]
    /\ UNCHANGED <<d, gpu, display, heap, vga_screen, known_modes, trip, fb,
                   stray, plotted, draws, input, published, errors, op, ret,
                   out, virtq, kernel>>

\* the next statement of the call caller c is in
ParportStep(c) ==
    /\ parport.call[c].pc # "idle"
    /\ \/ /\ parport.call[c].fn = "read_write"
          /\ \E busy \in {0, 1} : parport' = read_write(parport, c, busy)
       \/ /\ parport.call[c].fn = "status"
          /\ parport' = status(parport, c)
    /\ UNCHANGED <<d, gpu, display, heap, vga_screen, known_modes, trip, fb,
                   stray, plotted, draws, input, published, errors, op, ret,
                   out, virtq, kernel>>

\* the attached device raises its ack line and the handler runs, on a
\* processor that is not inside the lock
Interrupt ==
    /\ parport' = interrupt_handler(parport)
    /\ UNCHANGED <<d, gpu, display, heap, vga_screen, known_modes, trip, fb,
                   stray, plotted, draws, input, published, errors, op, ret,
                   out, virtq, kernel>>

NextParport ==
    \/ \E c \in Callers : ParportCall(c)
    \/ \E c \in Callers : ParportStep(c)
    \/ Interrupt

SpecParport == Init /\ [][NextParport]_vars

\* caller c returns in this step
Returns(c) == parport.call[c].pc = "unlock" /\ parport'.call[c].pc = "idle"

\* C40: a read or write does port I/O and returns 1 only if the state was
\* READY when it tested it, and it stores BUSY; from that store until the
\* interrupt handler runs the state is BUSY, every read or write that tests
\* it returns 0 without port I/O and status reports neither readable nor
\* writable; only the interrupt handler stores READY; and a call holds the
\* state lock exactly between STATE_LOCK and STATE_UNLOCK, so it returns
\* with the lock released.
C40_ReadyBusyStateMachine ==
    /\ [](parport.quiet => parport.state = BUSY)
    /\ [](\A c \in Callers :
            parport.lock = c <=> parport.call[c].pc \notin {"idle", "lock"})
    /\ [][\A c \in Callers :
            /\ (Returns(c) /\ parport.call[c].fn = "read_write") =>
                  /\ parport.call[c].rc \in {0, 1}
                  /\ parport.call[c].rc = 1 =>
                        /\ parport.call[c].entry = READY
                        /\ {"CTRL_PORT", "DATA_PORT"} \subseteq parport.call[c].io
                  /\ parport.call[c].rc = 0 =>
                        /\ parport.call[c].entry = BUSY
                        /\ parport.call[c].io = {}
                  /\ parport'.lock # c
            /\ (Returns(c) /\ parport.call[c].fn = "status") =>
                  /\ parport.call[c].rc =
                        IF parport.call[c].entry = READY
                            THEN {NK_CHARDEV_READABLE, NK_CHARDEV_WRITEABLE}
                            ELSE {}
                  /\ parport'.lock # c
            /\ (parport.quiet /\ parport.call[c].pc = "check"
                   /\ parport'.call[c].pc # "check") =>
                  /\ parport'.call[c].pc = "unlock"
                  /\ parport'.call[c].io = {}
                  /\ parport'.call[c].rc =
                        IF parport.call[c].fn = "status" THEN {} ELSE 0
            /\ (parport.call[c].pc = "mark" /\ parport'.call[c].pc # "mark") =>
                  parport'.state = BUSY /\ parport'.quiet]_vars
    /\ [][(parport.state # READY /\ parport'.state = READY)
             => parport'.by = "interrupt_handler"]_vars

\* a write has returned 1, and before any interrupt a read has found the
\* device busy and is about to return 0
C40_Witness ==
    /\ parport.quiet
    /\ parport.call[1].pc = "idle" /\ parport.call[1].fn = "read_write"
    /\ parport.call[1].write = 1 /\ parport.call[1].rc = 1
    /\ parport.call[2].pc = "unlock" /\ parport.call[2].fn = "read_write"
    /\ parport.call[2].write = 0 /\ parport.call[2].rc = 0
    /\ parport.call[2].io = {}

====
